---- MODULE Spec2Model ----
(***************************************************************************)
(* Model of the axum-helpers authentication layer (src/src/auth): the      *)
(* AuthMiddleware::call state machine, the extractors, the response        *)
(* markers, and the AuthHandler / routes of the dual-token test            *)
(* application (src/src/tests/authentication_with_refresh_token.rs).       *)
(* With it: the AxumApp server lifecycle (src/src/app.rs), the             *)
(* ResponseHttpHeaderMutatorMiddleware (response_http_header_mutator.rs)   *)
(* and the cookie loops of the earlier middleware variants (src/src/lib.rs *)
(* and src/src/auth.rs).                                                   *)
(*                                                                         *)
(* A cookie jar is modelled as the sequence of cookies that                *)
(* cookie_jar.iter() yields; Option<T> is a sequence of length <= 1;       *)
(* Result<T, StatusCode> is a record [ok, val, err].                       *)
(***************************************************************************)
EXTENDS Integers, Sequences, FiniteSets, TLC

(* ------------------------------ bounds -------------------------------- *)
\* longest cookie jar a request carries
MaxCookies == 2
\* the clock runs from 1 to MaxTime
MaxTime == 2
\* the server tasks one AxumApp spawns
MaxServers == 3
\* the stop_server calls on one AxumApp
MaxStops == 2
\* longest list of access_token cookies the variants are compared on
MaxSelCookies == 3

(* --------------------------- program constants ------------------------ *)
ACCESS_TOKEN_COOKIE_NAME == "access_token"
REFRESH_TOKEN_COOKIE_NAME == "refresh_token"
\* a cookie name that is neither of the two
OTHER_COOKIE_NAME == "other"
UNIX_EPOCH == 0
OK == 200
BAD_REQUEST == 400
UNAUTHORIZED == 401
FORBIDDEN == 403
ACCESS_TOKEN_EXPIRATION_TIME_DURATION == 1
REFRESH_TOKEN_EXPIRATION_TIME_DURATION == 86400

(* ------------------------------ value sets ---------------------------- *)
AccessTokens == {"a1", "a2"}
RefreshTokens == {"r1", "r2"}
LoginNames == {"admin", "user"}
\* the values Uuid::new_v4 can return: two access tokens (a login and a
\* refresh) and one refresh token; "r2" is a value no login ever issued
AccessUuids == {"a1", "a2"}
RefreshUuids == {"r1"}
Slots == {"s1", "s2"}
\* the sequential specification runs one exchange at a time
SeqSlots == {"s1"}

None == <<>>
Some(x) == <<x>>
IsSome(o) == o # <<>>
Unwrap(o) == o[1]

Ok(v) == [ok |-> TRUE, val |-> v, err |-> OK]
Err(s) == [ok |-> FALSE, val |-> "", err |-> s]

OptPaths == {None, Some("/x")}
unwrap_or_root(p) == IF IsSome(p) THEN Unwrap(p) ELSE "/"

(* ------------------------------ cookies ------------------------------- *)
\* a request cookie carries no Expires attribute, or one that passes when the
\* clock first ticks
CookieExpiries == {None, Some(1)}

\* a cookie of the request: name, value and optional Expires attribute
RequestCookies ==
    {[name |-> n, value |-> v, expires |-> e] :
        n \in {ACCESS_TOKEN_COOKIE_NAME}, v \in AccessTokens,
        e \in CookieExpiries}
    \cup
    {[name |-> n, value |-> v, expires |-> e] :
        n \in {REFRESH_TOKEN_COOKIE_NAME}, v \in RefreshTokens,
        e \in CookieExpiries}
    \cup
    {[name |-> OTHER_COOKIE_NAME, value |-> "v", expires |-> None]}

RECURSIVE SeqsUpTo(_, _)
SeqsUpTo(S, n) ==
    IF n = 0 THEN {<<>>}
    ELSE LET shorter == SeqsUpTo(S, n - 1)
         IN shorter \cup {Append(s, x) : s \in {q \in shorter : Len(q) = n - 1}, x \in S}

\* CookieJar::from_headers(req.headers()), as the sequence iter() yields
Jars == SeqsUpTo(RequestCookies, MaxCookies)

\* mutant: no cookie counts as expired
is_cookie_expired_by_date_never(cookie, time) == FALSE

is_cookie_expired_by_date(cookie, time) ==
    IF IsSome(cookie.expires) THEN Unwrap(cookie.expires) < time ELSE FALSE

create_access_token_cookie(access_token, expires_at, path) ==
    [name |-> ACCESS_TOKEN_COOKIE_NAME, value |-> access_token,
     http_only |-> TRUE, secure |-> TRUE, same_site |-> "Strict",
     expires |-> expires_at, path |-> path]

create_refresh_token_cookie(refresh_token, expires_at, path) ==
    [name |-> REFRESH_TOKEN_COOKIE_NAME, value |-> refresh_token,
     http_only |-> TRUE, secure |-> TRUE, same_site |-> "Strict",
     expires |-> expires_at, path |-> path]

(* ------------------------- response and markers ----------------------- *)
\* TokenResponse { token, expires_at, path }
TokenResponse_with_offset_date_time(token, expires_at, path) ==
    [token |-> token, expires_at |-> expires_at, path |-> unwrap_or_root(path)]

TokenResponse_with_time_delta(token, expiration_time_delta, path, time) ==
    TokenResponse_with_offset_date_time(token, time + expiration_time_delta, path)

\* AuthLogoutResponse::new
AuthLogoutResponse_new(access_token_path, refresh_token_path) ==
    [access_token_path |-> access_token_path, refresh_token_path |-> refresh_token_path]

\* a response: status, body, Set-Cookie headers and the typed extensions
Response(status, body) ==
    [status |-> status, body |-> body, set_cookie |-> <<>>,
     AuthLogoutExtension |-> None, AccessTokenResponse |-> None,
     RefreshTokenResponse |-> None]

\* AccessTokenResponse::into_response_parts: res.extensions_mut().insert(self)
AccessTokenResponse_into_response_parts(self, res) ==
    [res EXCEPT !.AccessTokenResponse = Some(self)]

\* RefreshTokenResponse::into_response_parts: res.extensions_mut().insert(self)
RefreshTokenResponse_into_response_parts(self, res) ==
    [res EXCEPT !.RefreshTokenResponse = Some(self)]

\* AuthLogoutResponse::into_response_parts
AuthLogoutResponse_into_response_parts(self, res) ==
    [res EXCEPT !.AuthLogoutExtension = Some(self)]

(* --------------------- AppState: the AuthHandler ---------------------- *)
MapInsert(m, k, v) == [x \in DOMAIN m \cup {k} |-> IF x = k THEN v ELSE m[x]]
MapRemove(m, k) == [x \in DOMAIN m \ {k} |-> m[x]]
EmptyMap == [x \in {} |-> ""]

\* AppState::new
AppState_new ==
    [logins_by_access_token |-> EmptyMap, access_tokens_by_refresh_token |-> EmptyMap]

\* Uuid::new_v4: a value never generated before (the pool is symmetric, so
\* the choice of which unused value is immaterial)
Uuid_new_v4(pool, used) == CHOOSE u \in pool \ used : TRUE

\* AppState::login
AppState_login(st, loginname, access_token, refresh_token, time) ==
    [state |->
        [logins_by_access_token |->
            MapInsert(st.logins_by_access_token, access_token, loginname),
         access_tokens_by_refresh_token |->
            MapInsert(st.access_tokens_by_refresh_token, refresh_token, access_token)],
     access |-> TokenResponse_with_time_delta(
                    access_token, ACCESS_TOKEN_EXPIRATION_TIME_DURATION, None, time),
     refresh |-> TokenResponse_with_time_delta(
                    refresh_token, REFRESH_TOKEN_EXPIRATION_TIME_DURATION,
                    Some("/api/refresh-login"), time)]

\* AppState::refresh: each `?` returns early, keeping the removals made so far
AppState_refresh(st, refresh_token, new_access_token, time) ==
    IF refresh_token \notin DOMAIN st.access_tokens_by_refresh_token
    THEN [state |-> st, result |-> None]
    ELSE LET access_token == st.access_tokens_by_refresh_token[refresh_token]
             st1 == [st EXCEPT !.access_tokens_by_refresh_token =
                                    MapRemove(@, refresh_token)]
         IN IF access_token \notin DOMAIN st1.logins_by_access_token
            THEN [state |-> st1, result |-> None]
            ELSE LET login_info == st1.logins_by_access_token[access_token]
                 IN [state |->
                        [logins_by_access_token |->
                            MapInsert(MapRemove(st1.logins_by_access_token, access_token),
                                      new_access_token, login_info),
                         access_tokens_by_refresh_token |->
                            MapInsert(st1.access_tokens_by_refresh_token,
                                      refresh_token, new_access_token)],
                     result |-> Some(TokenResponse_with_time_delta(
                                    new_access_token,
                                    REFRESH_TOKEN_EXPIRATION_TIME_DURATION, None, time))]

\* AppState::logout
AppState_logout(st, refresh_token) ==
    IF refresh_token \in DOMAIN st.access_tokens_by_refresh_token
    THEN LET access_token == st.access_tokens_by_refresh_token[refresh_token]
         IN [logins_by_access_token |-> MapRemove(st.logins_by_access_token, access_token),
             access_tokens_by_refresh_token |->
                MapRemove(st.access_tokens_by_refresh_token, refresh_token)]
    ELSE st

\* AuthHandler::verify_access_token
verify_access_token(st, access_token) ==
    IF access_token \in DOMAIN st.logins_by_access_token
    THEN Ok(st.logins_by_access_token[access_token])
    ELSE Err(BAD_REQUEST)

\* AuthHandler::update_access_token: Option<(token, ttl)>; the test handler
\* always renews with the same token, the trait also allows None
update_access_token(access_token, login_info) ==
    {None, Some([token |-> access_token, ttl |-> ACCESS_TOKEN_EXPIRATION_TIME_DURATION])}

\* mutant: the handler keeps the session of a revoked access token
revoke_access_token_keeping_session(st, access_token, login_info) == st

\* AuthHandler::revoke_access_token
revoke_access_token(st, access_token, login_info) ==
    [st EXCEPT !.logins_by_access_token = MapRemove(@, access_token)]

\* AuthHandler::verify_refresh_token
verify_refresh_token(st, refresh_token) ==
    IF refresh_token \in DOMAIN st.access_tokens_by_refresh_token
    THEN Ok("")
    ELSE Err(BAD_REQUEST)

\* AuthHandler::revoke_refresh_token
revoke_refresh_token(st, refresh_token) == AppState_logout(st, refresh_token)

(* ----------------------------- extractors ----------------------------- *)
\* mutant: every rejection is Unauthorized, the handler's status is dropped
LoginInfoExtractor_always_unauthorized(extensions) ==
    IF ~IsSome(extensions.AccessTokenVerificationResultExtension)
    THEN Err(UNAUTHORIZED)
    ELSE LET r == Unwrap(extensions.AccessTokenVerificationResultExtension)
         IN IF r.ok THEN Ok(r.val) ELSE Err(UNAUTHORIZED)

\* LoginInfoExtractor::from_request_parts (Required mode)
LoginInfoExtractor(extensions) ==
    IF ~IsSome(extensions.AccessTokenVerificationResultExtension)
    THEN Err(UNAUTHORIZED)
    ELSE LET r == Unwrap(extensions.AccessTokenVerificationResultExtension)
         IN IF r.ok THEN Ok(r.val) ELSE Err(r.err)

\* mutant: the identity is given whenever a verification result is present
OptionLoginInfoExtractor_if_present(extensions) ==
    IF IsSome(extensions.AccessTokenVerificationResultExtension)
    THEN Some(Unwrap(extensions.AccessTokenVerificationResultExtension).val)
    ELSE None

\* Option<LoginInfoExtractor>: the rejection is dropped
OptionLoginInfoExtractor(extensions) ==
    LET r == LoginInfoExtractor(extensions)
    IN IF r.ok THEN Some(r.val) ELSE None

\* mutant: the token is yielded whenever a refresh token was presented
RefreshTokenExtractor_if_present(extensions) ==
    IF ~IsSome(extensions.RefreshTokenVerificationResultExtension)
    THEN Err(UNAUTHORIZED)
    ELSE Ok(Unwrap(extensions.RefreshTokenVerificationResultExtension).token)

\* RefreshTokenExtractor::from_request_parts
RefreshTokenExtractor(extensions) ==
    IF ~IsSome(extensions.RefreshTokenVerificationResultExtension)
    THEN Err(UNAUTHORIZED)
    ELSE LET e == Unwrap(extensions.RefreshTokenVerificationResultExtension)
         IN IF ~e.result.ok THEN Err(e.result.err) ELSE Ok(e.token)

(* ------------------- the wrapped service (the routes) ----------------- *)
\* what the wrapped service returns: Ok(response) or Err(e)
ServiceOk(st, used, res) == [state |-> st, uuids |-> used, result |-> [ok |-> TRUE, response |-> res]]
ServiceErr(st, used) ==
    [state |-> st, uuids |-> used, result |-> [ok |-> FALSE, response |-> Response(OK, "")]]

get_public == Response(OK, "public")

get_private(extensions) ==
    LET login_info == LoginInfoExtractor(extensions)
    IN IF login_info.ok THEN Response(OK, "private") ELSE Response(login_info.err, "")

get_hybrid(extensions) ==
    IF IsSome(OptionLoginInfoExtractor(extensions))
    THEN Response(OK, "authenticated")
    ELSE Response(OK, "unauthenticated")

\* the role AppState::login of the role-gated application gives a login name
role(loginname) == IF loginname = "admin" THEN "admin" ELSE "regular"

\* mutant: a wrong role is answered like a missing identity
check_required_role_unauthorized(required_role, f, extensions) ==
    LET login_info == LoginInfoExtractor(extensions)
    IN IF ~login_info.ok THEN Response(login_info.err, "")
       ELSE IF role(login_info.val) = required_role THEN f
            ELSE Response(UNAUTHORIZED, "")

\* check_required_role: f is what the decorated handler answers
check_required_role(required_role, f, extensions) ==
    LET login_info == LoginInfoExtractor(extensions)
    IN IF ~login_info.ok THEN Response(login_info.err, "")
       ELSE IF role(login_info.val) = required_role THEN f
            ELSE Response(FORBIDDEN, "")

get_admin_page(extensions) ==
    check_required_role("admin", Response(OK, "admin-page"), extensions)

api_login(st, used, loginname, time) ==
    LET access_token == Uuid_new_v4(AccessUuids, used)
        refresh_token == Uuid_new_v4(RefreshUuids, used)
        l == AppState_login(st, loginname, access_token, refresh_token, time)
    IN ServiceOk(l.state, used \cup {access_token, refresh_token},
                 RefreshTokenResponse_into_response_parts(l.refresh,
                    AccessTokenResponse_into_response_parts(l.access,
                        Response(OK, loginname))))

\* a login handler that issues its access token at a cookie path of its
\* own: AccessTokenResponse::with_time_delta(token, ttl, path)
login_at(st, used, loginname, access_token_path, time) ==
    LET access_token == Uuid_new_v4(AccessUuids, used)
        refresh_token == Uuid_new_v4(RefreshUuids, used)
        l == AppState_login(st, loginname, access_token, refresh_token, time)
    IN ServiceOk(l.state, used \cup {access_token, refresh_token},
                 RefreshTokenResponse_into_response_parts(l.refresh,
                    AccessTokenResponse_into_response_parts(
                        TokenResponse_with_time_delta(
                            access_token, ACCESS_TOKEN_EXPIRATION_TIME_DURATION,
                            access_token_path, time),
                        Response(OK, loginname))))

api_refresh_login(st, used, extensions, time) ==
    LET refresh_token == RefreshTokenExtractor(extensions)
    IN IF ~refresh_token.ok
       THEN ServiceOk(st, used, Response(refresh_token.err, ""))
       ELSE LET new_access_token == Uuid_new_v4(AccessUuids, used)
                r == AppState_refresh(st, refresh_token.val, new_access_token, time)
            IN IF IsSome(r.result)
               THEN ServiceOk(r.state, used \cup {new_access_token},
                        AccessTokenResponse_into_response_parts(
                            Unwrap(r.result), Response(OK, "")))
               ELSE ServiceOk(r.state, used, Response(BAD_REQUEST, ""))

api_logout(st, used, extensions) ==
    LET refresh_token == RefreshTokenExtractor(extensions)
    IN IF ~refresh_token.ok
       THEN ServiceOk(st, used, Response(refresh_token.err, ""))
       ELSE ServiceOk(AppState_logout(st, refresh_token.val), used,
                AuthLogoutResponse_into_response_parts(
                    AuthLogoutResponse_new(Some("/"), Some("/")), Response(OK, "")))

\* a handler that answers with AuthLogoutResponse::new(..) whatever the request
logout_response(access_token_path, refresh_token_path) ==
    AuthLogoutResponse_into_response_parts(
        AuthLogoutResponse_new(access_token_path, refresh_token_path), Response(OK, ""))

\* a cookie a handler sets by itself, with none of the layer's attributes
handler_cookie ==
    [name |-> OTHER_COOKIE_NAME, value |-> "v",
     http_only |-> FALSE, secure |-> FALSE, same_site |-> "Lax",
     expires |-> REFRESH_TOKEN_EXPIRATION_TIME_DURATION, path |-> "/"]

\* a handler whose response already carries a Set-Cookie header
cookie_response == [Response(OK, "cookie") EXCEPT !.set_cookie = <<handler_cookie>>]

\* a handler whose response carries a Set-Cookie header and a Logout marker
cookie_logout_response ==
    AuthLogoutResponse_into_response_parts(
        AuthLogoutResponse_new(None, None), cookie_response)

\* the requests: a route of the test application, the unconditional logout
\* handler, or a wrapped service that fails
Requests ==
    {[path |-> p, loginname |-> "", access_token_path |-> None, refresh_token_path |-> None] :
        p \in {"/public", "/private", "/hybrid", "/api/logout", "/api/refresh-login", "/fail",
               "/cookie", "/cookie-logout", "/admin-page"}}
    \cup
    {[path |-> "/api/login", loginname |-> n,
      access_token_path |-> None, refresh_token_path |-> None] : n \in LoginNames}
    \cup
    {[path |-> "/logout", loginname |-> "",
      access_token_path |-> ap, refresh_token_path |-> rp] : ap \in OptPaths, rp \in OptPaths}

\* login and refresh-login draw fresh uuids
NeedsUuid(request, used) ==
    CASE request.path \in {"/api/login", "/login"} ->
            AccessUuids \ used # {} /\ RefreshUuids \ used # {}
      [] request.path = "/api/refresh-login" -> AccessUuids \ used # {}
      [] OTHER -> TRUE

\* inner.call(req)
inner_call(request, extensions, st, used, time) ==
    CASE request.path = "/public" -> ServiceOk(st, used, get_public)
      [] request.path = "/private" -> ServiceOk(st, used, get_private(extensions))
      [] request.path = "/hybrid" -> ServiceOk(st, used, get_hybrid(extensions))
      [] request.path = "/api/login" -> api_login(st, used, request.loginname, time)
      [] request.path = "/login" ->
            login_at(st, used, request.loginname, request.access_token_path, time)
      [] request.path = "/api/refresh-login" -> api_refresh_login(st, used, extensions, time)
      [] request.path = "/api/logout" -> api_logout(st, used, extensions)
      [] request.path = "/logout" ->
            ServiceOk(st, used,
                logout_response(request.access_token_path, request.refresh_token_path))
      [] request.path = "/admin-page" -> ServiceOk(st, used, get_admin_page(extensions))
      [] request.path = "/cookie" -> ServiceOk(st, used, cookie_response)
      [] request.path = "/cookie-logout" -> ServiceOk(st, used, cookie_logout_response)
      [] OTHER -> ServiceErr(st, used)

(* --------------------------- the test client -------------------------- *)
\* the client of the tests (do_save_cookies): one stored cookie per name, and
\* the login name of its last successful login (None after a logout)
ClientNew ==
    [jar |-> [n \in {ACCESS_TOKEN_COOKIE_NAME, REFRESH_TOKEN_COOKIE_NAME} |-> None],
     logged_in |-> None]

\* the Cookie header the client sends: its unexpired cookies, name and value only
ClientCookie(cl, name, time) ==
    IF IsSome(cl.jar[name]) /\ Unwrap(cl.jar[name]).expires > time
    THEN <<[name |-> name, value |-> Unwrap(cl.jar[name]).value, expires |-> None]>>
    ELSE <<>>

ClientJar(cl, time) ==
    ClientCookie(cl, ACCESS_TOKEN_COOKIE_NAME, time)
        \o ClientCookie(cl, REFRESH_TOKEN_COOKIE_NAME, time)

RECURSIVE ClientStore(_, _, _)
\* save the Set-Cookie headers of a response, in order; an expired one deletes
ClientStore(jar, set_cookie, time) ==
    IF set_cookie = <<>> THEN jar
    ELSE LET c == Head(set_cookie)
         IN ClientStore(
                IF c.name \in DOMAIN jar
                THEN [jar EXCEPT ![c.name] = IF c.expires > time THEN Some(c) ELSE None]
                ELSE jar,
                Tail(set_cookie), time)

ClientSave(cl, request, result, time) ==
    IF ~result.ok THEN cl
    ELSE [jar |-> ClientStore(cl.jar, result.response.set_cookie, time),
          logged_in |->
            IF request.path = "/api/login" /\ result.response.status = OK
            THEN Some(request.loginname)
            ELSE IF request.path \in {"/api/logout", "/logout", "/cookie-logout"}
                    /\ result.response.status = OK
                 THEN None
                 ELSE cl.logged_in]

(* ------------------------------- AxumApp ------------------------------- *)
TaskIds == 1..MaxServers

\* the socket addresses run_server is called with
Addresses == {"addr1", "addr2"}

RunServerError_TcpBind == "TcpBind"

\* a server task that has not been spawned
NoTask == [status |-> "none", address |-> "", seen |-> 0]

\* AxumApp::new.  should_run and version are the value and the version of the
\* watch channel, sender_dropped its closing; _receiver is dropped when new
\* returns, so that the channel starts without a receiver.  tasks are the
\* futures handed to tokio::spawn, each with the version its receiver has
\* seen; should_run_receiver and listener_address are the locals of a
\* run_server call under way, result what the last run_server returned.
\* History: stops counts the stop_server calls, stopped holds the tasks that
\* were spawned before one of them.
AxumApp_new ==
    [pc |-> "idle",
     should_run |-> TRUE,
     version |-> 0,
     sender_dropped |-> FALSE,
     joinhandles |-> <<>>,
     tasks |-> [t \in TaskIds |-> NoTask],
     listener_address |-> "",
     should_run_receiver |-> None,
     result |-> None,
     stops |-> 0,
     stopped |-> {}]

Spawned(a) == {t \in TaskIds : a.tasks[t].status # "none"}

\* the receivers of the watch channel: one in every task that is waiting for
\* a change, one in a run_server call that has subscribed
receiver_count(a) ==
    Cardinality({t \in TaskIds : a.tasks[t].status = "serving"})
        + Len(a.should_run_receiver)

\* a send that wakes no receiver: the value changes, the version does not
stop_server_silent(a) ==
    IF receiver_count(a) = 0
    THEN a
    ELSE [a EXCEPT !.should_run = FALSE]

\* watch::Sender::send(false): fails, leaving the value, when the channel has
\* no receiver; the result is dropped
stop_server(a) ==
    IF receiver_count(a) = 0
    THEN a
    ELSE [a EXCEPT !.should_run = FALSE, !.version = @ + 1]

\* should_run_sender.subscribe(): the new receiver has seen the current version
subscribe(a) == Some(a.version)

\* an address one of the app's own listeners holds cannot be bound again;
\* any other address may be held by another process
BindOutcomes(a) ==
    IF \E t \in TaskIds : /\ a.tasks[t].status \in {"serving", "shutdown"}
                          /\ a.tasks[t].address = a.listener_address
    THEN {FALSE}
    ELSE {TRUE, FALSE}

\* tokio::spawn and joinhandles.push: the listener and the receiver move
\* into the new task
spawn_server(a) ==
    LET t == Cardinality(Spawned(a)) + 1
    IN [a EXCEPT !.pc = "idle",
                 !.tasks[t] = [status |-> "serving",
                               address |-> a.listener_address,
                               seen |-> Unwrap(a.should_run_receiver)],
                 !.joinhandles = Append(@, t),
                 !.should_run_receiver = None,
                 !.result = Some(Ok("unit"))]

\* a failed bind that leaves a task and its join handle behind
bind_failed_after_spawn(a) ==
    [spawn_server(a) EXCEPT !.result = Some(Err(RunServerError_TcpBind))]

\* map_err(RunServerError::TcpBind)?: run_server returns before the spawn and
\* drops its receiver
bind_failed(a) ==
    [a EXCEPT !.pc = "idle",
              !.should_run_receiver = None,
              !.result = Some(Err(RunServerError_TcpBind))]

\* one turn of the graceful-shutdown future of task t: changed() returns Ok
\* for an unseen version and Err once the sender is gone
changed_ready(a, t) ==
    \/ a.tasks[t].seen # a.version
    \/ a.sender_dropped

shutdown_signal(a, t) ==
    IF a.tasks[t].seen # a.version
    THEN IF ~a.should_run
         THEN [a EXCEPT !.tasks[t].seen = a.version, !.tasks[t].status = "shutdown"]
         ELSE [a EXCEPT !.tasks[t].seen = a.version]
    ELSE [a EXCEPT !.tasks[t].status = "shutdown"]

(* ------------------- ResponseHttpHeaderMutatorMiddleware --------------- *)
\* a HeaderMap: header names with one value each
HeaderNames == {"header-name-0", "header-name-1"}
HeaderValues == {"value-0", "value-1"}
HeaderMaps == UNION {[names -> HeaderValues] : names \in SUBSET HeaderNames}
EmptyHeaders == [name \in {} |-> ""]

\* the responses of the wrapped service, with the headers it sets itself
IndexResponses ==
    {[status |-> OK, body |-> "index", headers |-> headers] :
        headers \in {EmptyHeaders, [name \in {"content-type"} |-> "text/plain"]}}

\* the callbacks the layer is built with: the one of the test, which copies
\* the request headers, one that adds a header, one that fails, and one that
\* adds a header and then fails
Callbacks == {"copy", "insert", "reject", "insert_then_reject"}

WithHeader(headers, name, value) ==
    [n \in DOMAIN headers \cup {name} |-> IF n = name THEN value ELSE headers[n]]

\* callback(&request_headers, response.headers_mut()): the response headers
\* it leaves and the Result it returns, a StatusCode being the error
callback(cb, request_headers, response_headers) ==
    CASE cb = "copy" ->
            [headers |-> request_headers, ok |-> TRUE, err |-> OK]
      [] cb = "insert" ->
            [headers |-> WithHeader(response_headers, "x-added", "yes"),
             ok |-> TRUE, err |-> OK]
      [] cb = "reject" ->
            [headers |-> response_headers, ok |-> FALSE, err |-> BAD_REQUEST]
      [] cb = "insert_then_reject" ->
            [headers |-> WithHeader(response_headers, "x-added", "yes"),
             ok |-> FALSE, err |-> BAD_REQUEST]

\* the three shapes of Result<Result<Response, CallbackErrorType>, Error>
NoResponse == [status |-> OK, body |-> "", headers |-> EmptyHeaders]
OkOk(response) ==
    [service_ok |-> TRUE, callback_ok |-> TRUE, response |-> response,
     callback_err |-> OK, service_err |-> ""]
OkErr(e) ==
    [service_ok |-> TRUE, callback_ok |-> FALSE, response |-> NoResponse,
     callback_err |-> e, service_err |-> ""]
ErrService(e) ==
    [service_ok |-> FALSE, callback_ok |-> FALSE, response |-> NoResponse,
     callback_err |-> OK, service_err |-> e]

\* what the wrapped service returns
InnerOutcomes ==
    {[ok |-> TRUE, response |-> response, err |-> ""] : response \in IndexResponses}
        \cup {[ok |-> FALSE, response |-> NoResponse, err |-> "service-error"]}

\* IntoResponse for Result<Response, CallbackErrorType>
Result_into_response(result) ==
    IF result.callback_ok
    THEN result.response
    ELSE [status |-> result.callback_err, body |-> "", headers |-> EmptyHeaders]

\* one call of the middleware.  headers are the headers the request arrived
\* with, request_headers their clone; callback_calls lists the arguments of
\* the calls of the callback
HdrIdle ==
    [pc |-> "idle",
     callback |-> "copy",
     headers |-> EmptyHeaders,
     request_headers |-> EmptyHeaders,
     next_response |-> None,
     callback_calls |-> <<>>,
     result |-> None]

\* a variant that returns the response whatever the callback returned
mutate_ignoring_error(h, next_response) ==
    IF next_response.ok
    THEN LET called == callback(h.callback, h.request_headers,
                                next_response.response.headers)
         IN [h EXCEPT !.pc = "done",
                      !.next_response = Some(next_response),
                      !.callback_calls =
                            Append(@, [request_headers |-> h.request_headers,
                                       response_headers |->
                                            next_response.response.headers]),
                      !.result = Some(OkOk([next_response.response
                                        EXCEPT !.headers = called.headers]))]
    ELSE [h EXCEPT !.pc = "done",
                   !.next_response = Some(next_response),
                   !.result = Some(ErrService(next_response.err))]

\* a variant that hands the callback the headers of the response as the
\* headers of the request
mutate_from_response(h, next_response) ==
    IF next_response.ok
    THEN LET called == callback(h.callback, next_response.response.headers,
                                next_response.response.headers)
         IN [h EXCEPT !.pc = "done",
                      !.next_response = Some(next_response),
                      !.callback_calls =
                            Append(@, [request_headers |->
                                            next_response.response.headers,
                                       response_headers |->
                                            next_response.response.headers]),
                      !.result =
                            Some(IF called.ok
                                 THEN OkOk([next_response.response
                                                EXCEPT !.headers = called.headers])
                                 ELSE OkErr(called.err))]
    ELSE [h EXCEPT !.pc = "done",
                   !.next_response = Some(next_response),
                   !.result = Some(ErrService(next_response.err))]

\* the match on next_response: the callback is applied to the headers of an
\* Ok response, and its error takes the place of the response
mutate(h, next_response) ==
    IF next_response.ok
    THEN LET called == callback(h.callback, h.request_headers,
                                next_response.response.headers)
         IN [h EXCEPT !.pc = "done",
                      !.next_response = Some(next_response),
                      !.callback_calls =
                            Append(@, [request_headers |-> h.request_headers,
                                       response_headers |->
                                            next_response.response.headers]),
                      !.result =
                            Some(IF called.ok
                                 THEN OkOk([next_response.response
                                                EXCEPT !.headers = called.headers])
                                 ELSE OkErr(called.err))]
    ELSE [h EXCEPT !.pc = "done",
                   !.next_response = Some(next_response),
                   !.result = Some(ErrService(next_response.err))]

(* ------------------------ the middleware variants ---------------------- *)
\* the verify outcomes an assignment gives to an access token
VerifyOutcomes == {Ok(loginname) : loginname \in LoginNames} \cup {Err(BAD_REQUEST)}

\* the ordered lists of the values of the unexpired access_token cookies
CookieLists == SeqsUpTo(AccessUuids, MaxSelCookies)

\* one list of cookies with one assignment of outcomes, and what each
\* variant of the middleware has selected for it: None until it has run,
\* then Some of its selection
NoSelection ==
    [cookies |-> <<>>,
     outcomes |-> [at \in AccessUuids |-> Err(BAD_REQUEST)],
     lib |-> None,
     auth |-> None,
     auth_layer |-> None]

(* ------------------------------- state -------------------------------- *)
VARIABLES
    reqs,     \* per task: the locals of AuthMiddleware::call and its position
    state,    \* the AppState shared by the layer and the routes
    uuids,    \* the uuids generated so far
    now,      \* the clock
    client,   \* the cookie-saving test client
    logged_out, \* history: the access tokens a completed logout exchange revoked
    app,      \* the AxumApp, its server tasks and the position of its owner
    hdr,      \* one call of ResponseHttpHeaderMutatorMiddleware::call
    sel       \* one list of access_token cookies and what each variant selects

vars == <<reqs, state, uuids, now, client, logged_out, app, hdr, sel>>

NoRequest ==
    [path |-> "", loginname |-> "", access_token_path |-> None, refresh_token_path |-> None]

NoExtensions ==
    [AccessTokenVerificationResultExtension |-> None,
     RefreshTokenVerificationResultExtension |-> None]

\* the locals of one call of AuthMiddleware::call.  cookie_jar holds what
\* cookie_jar.iter() has yet to yield; examined lists the unexpired token
\* cookies the loop has seen, skipped the token cookies it passed over, calls
\* the AuthHandler calls made, all in order.
Idle ==
    [pc |-> "idle",
     request |-> NoRequest,
     from_client |-> FALSE,
     cookie_jar |-> <<>>,
     examined |-> <<>>,
     skipped |-> <<>>,
     received_access_token_login_result_pair |-> None,
     received_refresh_token |-> None,
     extensions |-> NoExtensions,
     next_response |-> None,
     auth_logout_extension |-> None,
     response |-> Response(OK, ""),
     result |-> None,
     calls |-> <<>>]

Call(op, token, login_info, result) ==
    [op |-> op, token |-> token, login_info |-> login_info, result |-> result]

Init ==
    /\ reqs = [r \in Slots |-> Idle]
    /\ state = AppState_new
    /\ uuids = {}
    /\ now = 1
    /\ client = ClientNew
    /\ logged_out = {}
    /\ app = AxumApp_new
    /\ hdr = HdrIdle
    /\ sel = NoSelection

(* ------------------------- AuthMiddleware::call ----------------------- *)
\* a request arrives with any cookie jar
Receive(r) ==
    /\ reqs[r].pc = "idle"
    /\ \E request \in Requests, jar \in Jars :
        /\ NeedsUuid(request, uuids)
        /\ reqs' = [reqs EXCEPT ![r] =
                [Idle EXCEPT !.pc = "extract", !.request = request, !.cookie_jar = jar]]
    /\ UNCHANGED <<state, uuids, now, app, hdr, sel, client, logged_out>>

\* the test client sends a request with the cookies it saved
ClientReceive(r) ==
    /\ reqs[r].pc = "idle"
    /\ \A o \in Slots : ~reqs[o].from_client
    /\ \E request \in Requests :
        /\ NeedsUuid(request, uuids)
        /\ reqs' = [reqs EXCEPT ![r] =
                [Idle EXCEPT !.pc = "extract", !.request = request,
                             !.from_client = TRUE,
                             !.cookie_jar = ClientJar(client, now)]]
    /\ UNCHANGED <<state, uuids, now, app, hdr, sel, client, logged_out>>

\* mutant: every cookie replaces what the loop holds (the last cookie wins)
replace_always(received) == TRUE

\* mutant: only the first cookie of a kind is verified
replace_if_none(received) == ~IsSome(received)

\* the replace flag of the cookie loop
replace(received) ==
    IF IsSome(received) THEN ~Unwrap(received).result.ok ELSE TRUE

\* mutant: a refresh token is verified only once the access token has verified
examine_cookie_coupled(rq, cookie, st, time) ==
    IF cookie.name = ACCESS_TOKEN_COOKIE_NAME /\ ~is_cookie_expired_by_date(cookie, time)
    THEN LET seen == [rq EXCEPT !.examined = Append(@, cookie)]
             verification_result == verify_access_token(st, cookie.value)
         IN IF replace(rq.received_access_token_login_result_pair)
            THEN [seen EXCEPT
                    !.received_access_token_login_result_pair =
                        Some([token |-> cookie.value, result |-> verification_result]),
                    !.calls = Append(@, Call("verify_access_token", cookie.value, "",
                                             verification_result))]
            ELSE seen
    ELSE IF cookie.name = REFRESH_TOKEN_COOKIE_NAME
            /\ ~is_cookie_expired_by_date(cookie, time)
         THEN LET seen == [rq EXCEPT !.examined = Append(@, cookie)]
                  verification_result == verify_refresh_token(st, cookie.value)
              IN IF /\ replace(rq.received_refresh_token)
                    /\ IsSome(rq.received_access_token_login_result_pair)
                    /\ Unwrap(rq.received_access_token_login_result_pair).result.ok
                 THEN [seen EXCEPT
                        !.received_refresh_token =
                            Some([token |-> cookie.value, result |-> verification_result]),
                        !.calls = Append(@, Call("verify_refresh_token", cookie.value, "",
                                                 verification_result))]
                 ELSE seen
         ELSE IF cookie.name \in {ACCESS_TOKEN_COOKIE_NAME, REFRESH_TOKEN_COOKIE_NAME}
              THEN [rq EXCEPT !.skipped = Append(@, cookie)]
              ELSE rq

\* one iteration of `for cookie in cookie_jar.iter()`
examine_cookie(rq, cookie, st, time) ==
    IF cookie.name = ACCESS_TOKEN_COOKIE_NAME /\ ~is_cookie_expired_by_date(cookie, time)
    THEN LET seen == [rq EXCEPT !.examined = Append(@, cookie)]
             verification_result == verify_access_token(st, cookie.value)
         IN IF replace(rq.received_access_token_login_result_pair)
            THEN [seen EXCEPT
                    !.received_access_token_login_result_pair =
                        Some([token |-> cookie.value, result |-> verification_result]),
                    !.calls = Append(@, Call("verify_access_token", cookie.value, "",
                                             verification_result))]
            ELSE seen
    ELSE IF cookie.name = REFRESH_TOKEN_COOKIE_NAME
            /\ ~is_cookie_expired_by_date(cookie, time)
         THEN LET seen == [rq EXCEPT !.examined = Append(@, cookie)]
                  verification_result == verify_refresh_token(st, cookie.value)
              IN IF replace(rq.received_refresh_token)
                 THEN [seen EXCEPT
                        !.received_refresh_token =
                            Some([token |-> cookie.value, result |-> verification_result]),
                        !.calls = Append(@, Call("verify_refresh_token", cookie.value, "",
                                                 verification_result))]
                 ELSE seen
         ELSE IF cookie.name \in {ACCESS_TOKEN_COOKIE_NAME, REFRESH_TOKEN_COOKIE_NAME}
              THEN [rq EXCEPT !.skipped = Append(@, cookie)]
              ELSE rq

RECURSIVE run_loop(_, _, _, _)
\* the whole of `for cookie in cookie_jar.iter()` over a jar
run_loop(rq, jar, st, time) ==
    IF jar = <<>> THEN rq
    ELSE run_loop(examine_cookie(rq, Head(jar), st, time), Tail(jar), st, time)

ExamineCookie(r) ==
    /\ reqs[r].pc = "extract"
    /\ reqs[r].cookie_jar # <<>>
    /\ reqs' = [reqs EXCEPT ![r] =
            [examine_cookie(reqs[r], Head(reqs[r].cookie_jar), state, now)
                EXCEPT !.cookie_jar = Tail(@)]]
    /\ UNCHANGED <<state, uuids, now, app, hdr, sel, client, logged_out>>

\* mutant: a verification result is kept across requests; a request that
\* presented no access token is given the result another request holds
insert_extensions_cached(rq) ==
    [AccessTokenVerificationResultExtension |->
        IF IsSome(rq.received_access_token_login_result_pair)
        THEN Some(Unwrap(rq.received_access_token_login_result_pair).result)
        ELSE IF \E o \in Slots : IsSome(reqs[o].received_access_token_login_result_pair)
             THEN LET o == CHOOSE o \in Slots :
                            IsSome(reqs[o].received_access_token_login_result_pair)
                  IN Some(Unwrap(reqs[o].received_access_token_login_result_pair).result)
             ELSE None,
     RefreshTokenVerificationResultExtension |-> rq.received_refresh_token]

\* mutant: only a successful verification is written into the extensions
insert_extensions_only_ok(rq) ==
    [AccessTokenVerificationResultExtension |->
        IF /\ IsSome(rq.received_access_token_login_result_pair)
           /\ Unwrap(rq.received_access_token_login_result_pair).result.ok
        THEN Some(Unwrap(rq.received_access_token_login_result_pair).result)
        ELSE None,
     RefreshTokenVerificationResultExtension |->
        IF /\ IsSome(rq.received_refresh_token)
           /\ Unwrap(rq.received_refresh_token).result.ok
        THEN rq.received_refresh_token
        ELSE None]

\* the two req.extensions_mut().insert(..)
insert_extensions(rq) ==
    [AccessTokenVerificationResultExtension |->
        IF IsSome(rq.received_access_token_login_result_pair)
        THEN Some(Unwrap(rq.received_access_token_login_result_pair).result)
        ELSE None,
     RefreshTokenVerificationResultExtension |-> rq.received_refresh_token]

\* mutant: a request whose token the handler rejected is not passed on
Dispatch_unless_rejected(r) ==
    /\ reqs[r].pc = "extract"
    /\ reqs[r].cookie_jar = <<>>
    /\ ~(/\ IsSome(reqs[r].received_access_token_login_result_pair)
          /\ ~Unwrap(reqs[r].received_access_token_login_result_pair).result.ok)
    /\ LET extensions == insert_extensions(reqs[r])
           out == inner_call(reqs[r].request, extensions, state, uuids, now)
       IN /\ reqs' = [reqs EXCEPT ![r].pc = "inspect",
                                  ![r].extensions = extensions,
                                  ![r].next_response = Some(out.result)]
          /\ state' = out.state
          /\ uuids' = out.uuids
    /\ UNCHANGED <<now, app, hdr, sel, client, logged_out>>

\* mutant: the wrapped service is called before the cookie loop has ended
Dispatch_before_loop_end(r) ==
    /\ reqs[r].pc = "extract"
    /\ LET extensions == insert_extensions(reqs[r])
           out == inner_call(reqs[r].request, extensions, state, uuids, now)
       IN /\ reqs' = [reqs EXCEPT ![r].pc = "inspect",
                                  ![r].extensions = extensions,
                                  ![r].next_response = Some(out.result)]
          /\ state' = out.state
          /\ uuids' = out.uuids
    /\ UNCHANGED <<now, app, hdr, sel, client, logged_out>>

\* the extensions are inserted and the wrapped service runs
Dispatch(r) ==
    /\ reqs[r].pc = "extract"
    /\ reqs[r].cookie_jar = <<>>
    /\ LET extensions == insert_extensions(reqs[r])
           out == inner_call(reqs[r].request, extensions, state, uuids, now)
       IN /\ reqs' = [reqs EXCEPT ![r].pc = "inspect",
                                  ![r].extensions = extensions,
                                  ![r].next_response = Some(out.result)]
          /\ state' = out.state
          /\ uuids' = out.uuids
    /\ UNCHANGED <<now, app, hdr, sel, client, logged_out>>

\* mutant: a token counts as verified as soon as a result is held
verified_if_present(received) == IsSome(received)

\* mutant: no token ever counts as verified
verified_never(received) == FALSE

\* Some((token, Ok(..))) = received
verified(received) == IsSome(received) /\ Unwrap(received).result.ok

\* mutant: only the access-token cookie is expired
logout_cookie_jar_access_only(auth_logout_extension) ==
    <<create_access_token_cookie(
          "", UNIX_EPOCH, unwrap_or_root(auth_logout_extension.access_token_path))>>

\* the cookie jar of the logout branch
logout_cookie_jar(auth_logout_extension) ==
    <<create_access_token_cookie(
          "", UNIX_EPOCH, unwrap_or_root(auth_logout_extension.access_token_path)),
      create_access_token_cookie(
          "", UNIX_EPOCH, unwrap_or_root(auth_logout_extension.refresh_token_path))>>

\* mutant: when the handler declines to renew, the cookie is cleared
renewal_cookie_jar_clearing(updated, time) ==
    IF IsSome(updated)
    THEN <<create_access_token_cookie(
               Unwrap(updated).token, time + Unwrap(updated).ttl, "/")>>
    ELSE <<create_access_token_cookie("", UNIX_EPOCH, "/")>>

\* mutant: the renewed cookie is issued at another path than the root
renewal_cookie_jar_elsewhere(updated, time) ==
    IF IsSome(updated)
    THEN <<create_access_token_cookie(
               Unwrap(updated).token, time + Unwrap(updated).ttl, "/x")>>
    ELSE <<>>

\* the cookie jar of the renewal branch
renewal_cookie_jar(updated, time) ==
    IF IsSome(updated)
    THEN <<create_access_token_cookie(
               Unwrap(updated).token, time + Unwrap(updated).ttl, "/")>>
    ELSE <<>>

\* mutant: the cookies of the jar replace the Set-Cookie headers of the handler
extend_headers_replacing(response, cookie_jar) ==
    [response EXCEPT !.set_cookie = IF cookie_jar = <<>> THEN @ ELSE cookie_jar]

\* response.headers_mut().extend(cookie_jar.into_response().headers()..)
extend_headers(response, cookie_jar) ==
    [response EXCEPT !.set_cookie = @ \o cookie_jar]

\* Ok(response): the call returns
finish(rq, response, cookie_jar) ==
    [rq EXCEPT !.pc = "done",
               !.response = extend_headers(response, cookie_jar),
               !.result = Some([ok |-> TRUE,
                                response |-> extend_headers(response, cookie_jar)])]

\* the client saves the cookies of the response it is given
Deliver(rq) ==
    /\ client' = IF rq.from_client
                 THEN ClientSave(client, rq.request, Unwrap(rq.result), now)
                 ELSE client
    /\ logged_out' =
        IF /\ Unwrap(rq.result).ok
           /\ IsSome(Unwrap(rq.next_response).response.AuthLogoutExtension)
           /\ verified(rq.received_access_token_login_result_pair)
        THEN logged_out \cup {Unwrap(rq.received_access_token_login_result_pair).token}
        ELSE logged_out

HasLogout(rq) ==
    /\ rq.pc = "inspect"
    /\ Unwrap(rq.next_response).ok
    /\ IsSome(Unwrap(rq.next_response).response.AuthLogoutExtension)

\* mutant: the renewal branch does not look at the Logout marker
NoLogout_ignoring_marker(rq) ==
    /\ rq.pc = "inspect"
    /\ Unwrap(rq.next_response).ok

\* mutant: the renewal branch is taken whether the wrapped service returned
\* a response or failed
NoLogout_on_error(rq) ==
    /\ rq.pc = "inspect"
    /\ ~IsSome(Unwrap(rq.next_response).response.AuthLogoutExtension)

NoLogout(rq) ==
    /\ rq.pc = "inspect"
    /\ Unwrap(rq.next_response).ok
    /\ ~IsSome(Unwrap(rq.next_response).response.AuthLogoutExtension)

\* response.extensions_mut().remove::<AuthLogoutExtension>()
remove_logout_extension(rq) ==
    [rq EXCEPT
        !.auth_logout_extension = Unwrap(rq.next_response).response.AuthLogoutExtension,
        !.response = [Unwrap(rq.next_response).response EXCEPT !.AuthLogoutExtension = None]]

\* Err(e) => Err(e)
PropagateError(r) ==
    /\ reqs[r].pc = "inspect"
    /\ ~Unwrap(reqs[r].next_response).ok
    /\ LET rq == [reqs[r] EXCEPT !.pc = "done",
                                 !.result = Some(Unwrap(reqs[r].next_response))]
       IN /\ reqs' = [reqs EXCEPT ![r] = rq]
          /\ Deliver(rq)
    /\ UNCHANGED <<state, uuids, now, app, hdr, sel>>

\* logout, the access token verified: revoke_access_token(..).await
RevokeAccessToken(r) ==
    /\ HasLogout(reqs[r])
    /\ verified(reqs[r].received_access_token_login_result_pair)
    /\ LET pair == Unwrap(reqs[r].received_access_token_login_result_pair)
           rq0 == remove_logout_extension(reqs[r])
           rq1 == [rq0 EXCEPT !.calls =
                      Append(@, Call("revoke_access_token", pair.token,
                                     pair.result.val, Ok("")))]
           rq2 == IF verified(rq1.received_refresh_token)
                  THEN [rq1 EXCEPT !.pc = "revoke_refresh_token"]
                  ELSE finish(rq1, rq1.response,
                              logout_cookie_jar(Unwrap(rq1.auth_logout_extension)))
       IN /\ state' = revoke_access_token(state, pair.token, pair.result.val)
          /\ reqs' = [reqs EXCEPT ![r] = rq2]
          /\ IF rq2.pc = "done" THEN Deliver(rq2) ELSE UNCHANGED <<client, logged_out>>
    /\ UNCHANGED <<uuids, now, app, hdr, sel>>

\* logout, the refresh token verified: revoke_refresh_token(..).await
RevokeRefreshToken(r) ==
    /\ \/ reqs[r].pc = "revoke_refresh_token"
       \/ /\ HasLogout(reqs[r])
          /\ ~verified(reqs[r].received_access_token_login_result_pair)
    /\ verified(reqs[r].received_refresh_token)
    /\ LET token == Unwrap(reqs[r].received_refresh_token).token
           rq0 == IF reqs[r].pc = "inspect"
                  THEN remove_logout_extension(reqs[r]) ELSE reqs[r]
           rq1 == [rq0 EXCEPT !.calls =
                      Append(@, Call("revoke_refresh_token", token, "", Ok("")))]
           rq2 == finish(rq1, rq1.response,
                         logout_cookie_jar(Unwrap(rq1.auth_logout_extension)))
       IN /\ state' = revoke_refresh_token(state, token)
          /\ reqs' = [reqs EXCEPT ![r] = rq2]
          /\ Deliver(rq2)
    /\ UNCHANGED <<uuids, now, app, hdr, sel>>

\* mutant: the logout response is returned without waiting for any revoke call
LogoutWithoutToken_not_waiting(r) ==
    /\ HasLogout(reqs[r])
    /\ LET rq0 == remove_logout_extension(reqs[r])
           rq2 == finish(rq0, rq0.response,
                         logout_cookie_jar(Unwrap(rq0.auth_logout_extension)))
       IN /\ reqs' = [reqs EXCEPT ![r] = rq2]
          /\ Deliver(rq2)
    /\ UNCHANGED <<state, uuids, now, app, hdr, sel>>

\* logout, no token verified
LogoutWithoutToken(r) ==
    /\ HasLogout(reqs[r])
    /\ ~verified(reqs[r].received_access_token_login_result_pair)
    /\ ~verified(reqs[r].received_refresh_token)
    /\ LET rq0 == remove_logout_extension(reqs[r])
           rq2 == finish(rq0, rq0.response,
                         logout_cookie_jar(Unwrap(rq0.auth_logout_extension)))
       IN /\ reqs' = [reqs EXCEPT ![r] = rq2]
          /\ Deliver(rq2)
    /\ UNCHANGED <<state, uuids, now, app, hdr, sel>>

\* mutant: the renewal is skipped for a token a logout has revoked meanwhile
UpdateAccessToken_unless_revoked(r) ==
    /\ NoLogout(reqs[r])
    /\ verified(reqs[r].received_access_token_login_result_pair)
    /\ Unwrap(reqs[r].received_access_token_login_result_pair).token \notin logged_out
    /\ LET pair == Unwrap(reqs[r].received_access_token_login_result_pair)
       IN \E updated \in update_access_token(pair.token, pair.result.val) :
            LET rq1 == [reqs[r] EXCEPT !.calls =
                          Append(@, Call("update_access_token", pair.token,
                                         pair.result.val, Ok(updated)))]
                rq2 == finish(rq1, Unwrap(rq1.next_response).response,
                              renewal_cookie_jar(updated, now))
            IN /\ reqs' = [reqs EXCEPT ![r] = rq2]
               /\ Deliver(rq2)
    /\ UNCHANGED <<state, uuids, now, app, hdr, sel>>

\* mutant: the access token is renewed only in a response with status OK
UpdateAccessToken_only_success(r) ==
    /\ NoLogout(reqs[r])
    /\ verified(reqs[r].received_access_token_login_result_pair)
    /\ LET pair == Unwrap(reqs[r].received_access_token_login_result_pair)
       IN IF Unwrap(reqs[r].next_response).response.status = OK
          THEN \E updated \in update_access_token(pair.token, pair.result.val) :
                LET rq1 == [reqs[r] EXCEPT !.calls =
                              Append(@, Call("update_access_token", pair.token,
                                             pair.result.val, Ok(updated)))]
                    rq2 == finish(rq1, Unwrap(rq1.next_response).response,
                                  renewal_cookie_jar(updated, now))
                IN /\ reqs' = [reqs EXCEPT ![r] = rq2]
                   /\ Deliver(rq2)
          ELSE LET rq2 == finish(reqs[r], Unwrap(reqs[r].next_response).response, <<>>)
               IN /\ reqs' = [reqs EXCEPT ![r] = rq2]
                  /\ Deliver(rq2)
    /\ UNCHANGED <<state, uuids, now, app, hdr, sel>>

\* no logout, the access token verified: update_access_token(..).await
UpdateAccessToken(r) ==
    /\ NoLogout(reqs[r])
    /\ verified(reqs[r].received_access_token_login_result_pair)
    /\ LET pair == Unwrap(reqs[r].received_access_token_login_result_pair)
       IN \E updated \in update_access_token(pair.token, pair.result.val) :
            LET rq1 == [reqs[r] EXCEPT !.calls =
                          Append(@, Call("update_access_token", pair.token,
                                         pair.result.val, Ok(updated)))]
                rq2 == finish(rq1, Unwrap(rq1.next_response).response,
                              renewal_cookie_jar(updated, now))
            IN /\ reqs' = [reqs EXCEPT ![r] = rq2]
               /\ Deliver(rq2)
    /\ UNCHANGED <<state, uuids, now, app, hdr, sel>>

\* mutant: a request without a verified access token has its access_token
\* cookie cleared
NoRenewal_clearing_cookie(r) ==
    /\ NoLogout(reqs[r])
    /\ ~verified(reqs[r].received_access_token_login_result_pair)
    /\ LET rq2 == finish(reqs[r], Unwrap(reqs[r].next_response).response,
                         <<create_access_token_cookie("", UNIX_EPOCH, "/")>>)
       IN /\ reqs' = [reqs EXCEPT ![r] = rq2]
          /\ Deliver(rq2)
    /\ UNCHANGED <<state, uuids, now, app, hdr, sel>>

\* no logout, no verified access token: the empty cookie jar
NoRenewal(r) ==
    /\ NoLogout(reqs[r])
    /\ ~verified(reqs[r].received_access_token_login_result_pair)
    /\ LET rq2 == finish(reqs[r], Unwrap(reqs[r].next_response).response, <<>>)
       IN /\ reqs' = [reqs EXCEPT ![r] = rq2]
          /\ Deliver(rq2)
    /\ UNCHANGED <<state, uuids, now, app, hdr, sel>>

\* the task of a finished call ends and its locals are dropped
Return(r) ==
    /\ reqs[r].pc = "done"
    /\ reqs' = [reqs EXCEPT ![r] = Idle]
    /\ UNCHANGED <<state, uuids, now, app, hdr, sel, client, logged_out>>

\* time passes
Tick ==
    /\ now < MaxTime
    /\ now' = now + 1
    /\ UNCHANGED <<reqs, state, uuids, client, logged_out, app, hdr, sel>>

Next ==
    \/ \E r \in SeqSlots :
        \/ Receive(r)
        \/ ClientReceive(r)
        \/ ExamineCookie(r)
        \/ Dispatch(r)
        \/ PropagateError(r)
        \/ RevokeAccessToken(r)
        \/ RevokeRefreshToken(r)
        \/ LogoutWithoutToken(r)
        \/ UpdateAccessToken(r)
        \/ NoRenewal(r)
        \/ Return(r)
    \/ Tick

Spec == Init /\ [][Next]_vars

\* the runtime polls the future of a call until it has returned: the cookie
\* loop and the call of the wrapped service are not left waiting for ever
LiveSpec ==
    /\ Init
    /\ [][Next]_vars
    /\ \A r \in SeqSlots : WF_vars(ExamineCookie(r) \/ Dispatch(r))

(* ----------------------- concurrent requests -------------------------- *)
\* the state after one login: the session of "admin" with its two tokens
ConcInit ==
    /\ reqs = [r \in Slots |-> Idle]
    /\ state = AppState_login(AppState_new, "admin", "a1", "r1", 1).state
    /\ uuids = {"a1", "r1"}
    /\ now = 1
    /\ client = ClientNew
    /\ logged_out = {}
    /\ app = AxumApp_new
    /\ hdr = HdrIdle
    /\ sel = NoSelection

\* the requests that run concurrently: the two pages, a logout and a failing
\* service, with the cookies of the session, a token of no session, or none
ConcRequests ==
    {rq \in Requests :
        /\ rq.path \in {"/private", "/hybrid", "/logout", "/fail"}
        /\ rq.access_token_path = None
        /\ rq.refresh_token_path = None}

ConcJars ==
    LET A1 == [name |-> ACCESS_TOKEN_COOKIE_NAME, value |-> "a1", expires |-> None]
        A2 == [name |-> ACCESS_TOKEN_COOKIE_NAME, value |-> "a2", expires |-> None]
        R1 == [name |-> REFRESH_TOKEN_COOKIE_NAME, value |-> "r1", expires |-> None]
    IN {<<>>, <<A1>>, <<A2>>, <<R1>>, <<A1, R1>>}

ConcReceive(r) ==
    /\ reqs[r].pc = "idle"
    /\ \E request \in ConcRequests, jar \in ConcJars :
        reqs' = [reqs EXCEPT ![r] =
                [Idle EXCEPT !.pc = "extract", !.request = request, !.cookie_jar = jar]]
    /\ UNCHANGED <<state, uuids, now, app, hdr, sel, client, logged_out>>

\* every call of AuthMiddleware::call is a task of its own; the steps of the
\* tasks interleave at the await points
ConcNext ==
    \E r \in Slots :
        \/ ConcReceive(r)
        \/ ExamineCookie(r)
        \/ Dispatch(r)
        \/ PropagateError(r)
        \/ RevokeAccessToken(r)
        \/ RevokeRefreshToken(r)
        \/ LogoutWithoutToken(r)
        \/ UpdateAccessToken(r)
        \/ NoRenewal(r)
        \/ Return(r)

ConcSpec == ConcInit /\ [][ConcNext]_vars

(* ------------------- tokens issued at a cookie path -------------------- *)
\* logins whose marker carries a cookie path or none, and the requests that
\* present the issued tokens: the pages, a logout and a failing service
PathRequests ==
    {[path |-> "/login", loginname |-> "admin",
      access_token_path |-> access_token_path, refresh_token_path |-> None] :
        access_token_path \in OptPaths}
    \cup ConcRequests

PathReceive(r) ==
    /\ reqs[r].pc = "idle"
    /\ \E request \in PathRequests, jar \in ConcJars :
        /\ NeedsUuid(request, uuids)
        \* the uuids are few: one login draws them at a time
        /\ request.path = "/login" =>
                \A o \in Slots : ~(reqs[o].pc = "extract" /\ reqs[o].request.path = "/login")
        /\ reqs' = [reqs EXCEPT ![r] =
                [Idle EXCEPT !.pc = "extract", !.request = request, !.cookie_jar = jar]]
    /\ UNCHANGED <<state, uuids, now, app, hdr, sel, client, logged_out>>

\* the calls interleave as in ConcNext, starting before any login
PathNext ==
    \E r \in Slots :
        \/ PathReceive(r)
        \/ ExamineCookie(r)
        \/ Dispatch(r)
        \/ PropagateError(r)
        \/ RevokeAccessToken(r)
        \/ RevokeRefreshToken(r)
        \/ LogoutWithoutToken(r)
        \/ UpdateAccessToken(r)
        \/ NoRenewal(r)
        \/ Return(r)

PathSpec == Init /\ [][PathNext]_vars

(* ------------------------- the AxumApp and its servers ----------------- *)
\* the owner calls run_server, stop_server and join one after the other:
\* run_server and join borrow the app mutably until they return

\* stop_server
StopServer ==
    /\ app.pc = "idle"
    /\ app.stops < MaxStops
    /\ app' = [stop_server(app) EXCEPT !.stops = @ + 1,
                                       !.stopped = @ \cup Spawned(app)]
    /\ UNCHANGED <<reqs, state, uuids, now, client, logged_out, hdr, sel>>

\* run_server up to the await of TcpListener::bind
RunServerSubscribe(listener_address) ==
    /\ app.pc = "idle"
    /\ Cardinality(Spawned(app)) < MaxServers
    /\ app' = [app EXCEPT !.pc = "binding",
                          !.listener_address = listener_address,
                          !.should_run_receiver = subscribe(app),
                          !.result = None]
    /\ UNCHANGED <<reqs, state, uuids, now, client, logged_out, hdr, sel>>

\* run_server from the result of the bind to its return
RunServerBind ==
    /\ app.pc = "binding"
    /\ \E bound \in BindOutcomes(app) :
        app' = IF bound THEN spawn_server(app) ELSE bind_failed(app)
    /\ UNCHANGED <<reqs, state, uuids, now, client, logged_out, hdr, sel>>

\* the graceful-shutdown future of a server task is woken
ShutdownSignal(t) ==
    /\ app.tasks[t].status = "serving"
    /\ changed_ready(app, t)
    /\ app' = shutdown_signal(app, t)
    /\ UNCHANGED <<reqs, state, uuids, now, client, logged_out, hdr, sel>>

\* axum::serve returns after the shutdown signal: the task ends and its
\* listener is closed
ServeReturns(t) ==
    /\ app.tasks[t].status = "shutdown"
    /\ app' = [app EXCEPT !.tasks[t].status = "finished"]
    /\ UNCHANGED <<reqs, state, uuids, now, client, logged_out, hdr, sel>>

\* join: joinhandles.drain(..) starts
JoinStart ==
    /\ app.pc = "idle"
    /\ app' = [app EXCEPT !.pc = "joining"]
    /\ UNCHANGED <<reqs, state, uuids, now, client, logged_out, hdr, sel>>

\* join: the awaited join handle is that of a task that has ended
JoinAwait ==
    /\ app.pc = "joining"
    /\ app.joinhandles # <<>>
    /\ app.tasks[Head(app.joinhandles)].status = "finished"
    /\ app' = [app EXCEPT !.joinhandles = Tail(@)]
    /\ UNCHANGED <<reqs, state, uuids, now, client, logged_out, hdr, sel>>

\* join: the drain is exhausted, join returns
JoinReturn ==
    /\ app.pc = "joining"
    /\ app.joinhandles = <<>>
    /\ app' = [app EXCEPT !.pc = "idle"]
    /\ UNCHANGED <<reqs, state, uuids, now, client, logged_out, hdr, sel>>

\* Drop for AxumApp: stop_server, then the sender and the join handles go
DropApp ==
    /\ app.pc = "idle"
    /\ app' = [stop_server(app) EXCEPT !.pc = "dropped",
                                       !.sender_dropped = TRUE,
                                       !.joinhandles = <<>>,
                                       !.stops = @ + 1,
                                       !.stopped = @ \cup Spawned(app)]
    /\ UNCHANGED <<reqs, state, uuids, now, client, logged_out, hdr, sel>>

AppNext ==
    \/ StopServer
    \/ \E listener_address \in Addresses : RunServerSubscribe(listener_address)
    \/ RunServerBind
    \/ \E t \in TaskIds : ShutdownSignal(t)
    \/ \E t \in TaskIds : ServeReturns(t)
    \/ JoinStart
    \/ JoinAwait
    \/ JoinReturn
    \/ DropApp

AppSpec == Init /\ [][AppNext]_vars

\* the tokio runtime polls every spawned task and the future of join until
\* they are done; nothing makes the owner call run_server, stop_server or join
AppLiveSpec ==
    /\ Init
    /\ [][AppNext]_vars
    /\ \A t \in TaskIds : WF_vars(ShutdownSignal(t)) /\ WF_vars(ServeReturns(t))
    /\ WF_vars(JoinAwait)
    /\ WF_vars(JoinReturn)

(* ---------------- ResponseHttpHeaderMutatorMiddleware::call ------------- *)
\* call up to the await of inner.call(req)
HdrCall ==
    /\ hdr.pc = "idle"
    /\ \E headers \in HeaderMaps, cb \in Callbacks :
        hdr' = [HdrIdle EXCEPT !.pc = "inner",
                               !.callback = cb,
                               !.headers = headers,
                               !.request_headers = headers]
    /\ UNCHANGED <<reqs, state, uuids, now, client, logged_out, app, sel>>

\* the wrapped service returns and call runs to its end
HdrInnerReturns ==
    /\ hdr.pc = "inner"
    /\ \E next_response \in InnerOutcomes : hdr' = mutate(hdr, next_response)
    /\ UNCHANGED <<reqs, state, uuids, now, client, logged_out, app, sel>>

\* the result is handed to the caller
HdrReturn ==
    /\ hdr.pc = "done"
    /\ hdr' = HdrIdle
    /\ UNCHANGED <<reqs, state, uuids, now, client, logged_out, app, sel>>

HdrNext ==
    \/ HdrCall
    \/ HdrInnerReturns
    \/ HdrReturn

HdrSpec == Init /\ [][HdrNext]_vars

(* ------------- the cookie loops of the three middleware variants ------- *)
\* what a variant hands on: the access token and the identity it belongs to
Selected(at, login_info) == Some([access_token |-> at, login_info |-> login_info])

RECURSIVE lib_loop(_, _, _)
\* src/lib.rs: every cookie is verified and a success overwrites access_token
\* and login_info
lib_loop(cookies, outcomes, selected) ==
    IF cookies = <<>> THEN selected
    ELSE LET at == Head(cookies)
         IN lib_loop(Tail(cookies), outcomes,
                     IF outcomes[at].ok
                     THEN Selected(at, outcomes[at].val)
                     ELSE selected)

lib_call(cookies, outcomes) == lib_loop(cookies, outcomes, None)

\* a loop that does not stop at the first success
auth_call_without_break(cookies, outcomes) == lib_loop(cookies, outcomes, None)

RECURSIVE auth_call(_, _)
\* src/auth.rs: the loop breaks at the first cookie that verifies
auth_call(cookies, outcomes) ==
    IF cookies = <<>> THEN None
    ELSE LET at == Head(cookies)
         IN IF outcomes[at].ok
            THEN Selected(at, outcomes[at].val)
            ELSE auth_call(Tail(cookies), outcomes)

RECURSIVE auth_layer_loop(_, _, _)
\* src/auth/auth_layer.rs: a cookie is verified while replace holds
auth_layer_loop(cookies, outcomes, received) ==
    IF cookies = <<>> THEN received
    ELSE LET at == Head(cookies)
         IN auth_layer_loop(Tail(cookies), outcomes,
                            IF replace(received)
                            THEN Some([token |-> at, result |-> outcomes[at]])
                            ELSE received)

\* the pair of the loop is an identity for the routes, and a token to renew
\* or revoke, when its result is Ok
auth_layer_call(cookies, outcomes) ==
    LET received == auth_layer_loop(cookies, outcomes, None)
    IN IF IsSome(received) /\ Unwrap(received).result.ok
       THEN Selected(Unwrap(received).token, Unwrap(received).result.val)
       ELSE None

SelInit ==
    /\ reqs = [r \in Slots |-> Idle]
    /\ state = AppState_new
    /\ uuids = {}
    /\ now = 1
    /\ client = ClientNew
    /\ logged_out = {}
    /\ app = AxumApp_new
    /\ hdr = HdrIdle
    /\ sel \in {[NoSelection EXCEPT !.cookies = cookies, !.outcomes = outcomes] :
                    cookies \in CookieLists,
                    outcomes \in [AccessUuids -> VerifyOutcomes]}

SelLib ==
    /\ sel.lib = None
    /\ sel' = [sel EXCEPT !.lib = Some(lib_call(sel.cookies, sel.outcomes))]
    /\ UNCHANGED <<reqs, state, uuids, now, client, logged_out, app, hdr>>

SelAuth ==
    /\ sel.auth = None
    /\ sel' = [sel EXCEPT !.auth = Some(auth_call(sel.cookies, sel.outcomes))]
    /\ UNCHANGED <<reqs, state, uuids, now, client, logged_out, app, hdr>>

SelAuthLayer ==
    /\ sel.auth_layer = None
    /\ sel' = [sel EXCEPT !.auth_layer =
                    Some(auth_layer_call(sel.cookies, sel.outcomes))]
    /\ UNCHANGED <<reqs, state, uuids, now, client, logged_out, app, hdr>>

SelNext ==
    \/ SelLib
    \/ SelAuth
    \/ SelAuthLayer

SelSpec == SelInit /\ [][SelNext]_vars

(* ======================== properties of the layer ===================== *)
CountOp(calls, op) == Cardinality({i \in 1..Len(calls) : calls[i].op = op})
SelectOp(calls, op) == SelectSeq(calls, LAMBDA c : c.op = op)
ExaminedOf(rq, name) == SelectSeq(rq.examined, LAMBDA c : c.name = name)
MinOf(S) == CHOOSE x \in S : \A y \in S : x <= y

\* the wrapped service answered with a response that carries a Logout marker
CarriesLogout(rq) ==
    /\ IsSome(rq.next_response)
    /\ Unwrap(rq.next_response).ok
    /\ IsSome(Unwrap(rq.next_response).response.AuthLogoutExtension)

\* the token of a kind verified successfully in this request
AccessOk(rq) ==
    /\ rq.received_access_token_login_result_pair # <<>>
    /\ rq.received_access_token_login_result_pair[1].result.ok
RefreshOk(rq) ==
    /\ rq.received_refresh_token # <<>>
    /\ rq.received_refresh_token[1].result.ok

\* the call of AuthMiddleware::call has returned Ok(response)
ReturnedOk(rq) == rq.pc = "done" /\ Unwrap(rq.result).ok
FinalResponse(rq) == Unwrap(rq.result).response
InnerResponse(rq) == Unwrap(rq.next_response).response

\* C1: in no exchange are revoke_access_token and update_access_token both
\* called, and update_access_token is never called in an exchange whose
\* response carries a Logout marker.
C1_NeverRenewAndRevoke ==
    \A r \in Slots :
        /\ CarriesLogout(reqs[r]) => CountOp(reqs[r].calls, "update_access_token") = 0
        /\ ~(/\ CountOp(reqs[r].calls, "revoke_access_token") > 0
             /\ CountOp(reqs[r].calls, "update_access_token") > 0)

\* C1 witness: a finished logout exchange whose access token verified and was revoked
C1_Witness ==
    \E r \in Slots :
        /\ reqs[r].pc = "done"
        /\ CarriesLogout(reqs[r])
        /\ AccessOk(reqs[r])
        /\ CountOp(reqs[r].calls, "revoke_access_token") = 1

NoCallAfterSuccess(calls) ==
    \A i \in 1..Len(calls) : calls[i].result.ok => i = Len(calls)

ExpectedAccessPair(L, st) ==
    LET good == {i \in 1..Len(L) : L[i].value \in DOMAIN st.logins_by_access_token}
    IN IF L = <<>> THEN <<>>
       ELSE IF good # {}
            THEN <<[token |-> L[MinOf(good)].value,
                    result |-> [ok |-> TRUE,
                                val |-> st.logins_by_access_token[L[MinOf(good)].value],
                                err |-> OK]]>>
            ELSE <<[token |-> L[Len(L)].value,
                    result |-> [ok |-> FALSE, val |-> "", err |-> BAD_REQUEST]]>>

ExpectedRefreshPair(L, st) ==
    LET good == {i \in 1..Len(L) : L[i].value \in DOMAIN st.access_tokens_by_refresh_token}
    IN IF L = <<>> THEN <<>>
       ELSE IF good # {}
            THEN <<[token |-> L[MinOf(good)].value,
                    result |-> [ok |-> TRUE, val |-> "", err |-> OK]]>>
            ELSE <<[token |-> L[Len(L)].value,
                    result |-> [ok |-> FALSE, val |-> "", err |-> BAD_REQUEST]]>>

\* C3: while the cookies are examined, the result held for a token kind is
\* that of the first unexpired cookie of the kind that verifies, and the
\* error of the last one examined if none verifies.
C3_FirstSuccessElseLastError ==
    \A r \in Slots :
        reqs[r].pc = "extract" =>
            /\ reqs[r].received_access_token_login_result_pair
                = ExpectedAccessPair(ExaminedOf(reqs[r], ACCESS_TOKEN_COOKIE_NAME), state)
            /\ reqs[r].received_refresh_token
                = ExpectedRefreshPair(ExaminedOf(reqs[r], REFRESH_TOKEN_COOKIE_NAME), state)

\* C3 witness: two unexpired access cookies examined, the first rejected and
\* the second verified, and the second is the one held
C3_Witness ==
    \E r \in Slots :
        LET L == ExaminedOf(reqs[r], ACCESS_TOKEN_COOKIE_NAME)
        IN /\ reqs[r].pc = "extract"
           /\ reqs[r].cookie_jar = <<>>
           /\ Len(L) = 2
           /\ L[1].value \notin DOMAIN state.logins_by_access_token
           /\ L[2].value \in DOMAIN state.logins_by_access_token
           /\ reqs[r].received_access_token_login_result_pair[1].token = L[2].value

\* the wrapped service has answered the request for `path`
Answered(rq, path) ==
    /\ rq.request.path = path
    /\ IsSome(rq.next_response)
    /\ Unwrap(rq.next_response).ok

C5_OptionalNeverFails ==
    \A r \in Slots :
        (reqs[r].request.path = "/hybrid" /\ IsSome(reqs[r].next_response)) =>
            /\ Unwrap(reqs[r].next_response).ok
            /\ InnerResponse(reqs[r]).status = OK
            /\ InnerResponse(reqs[r]).body =
                    IF AccessOk(reqs[r]) THEN "authenticated" ELSE "unauthenticated"

\* C5 witness: the handler rejected the presented token and the hybrid page
\* is served as unauthenticated
C5_Witness ==
    \E r \in Slots :
        /\ Answered(reqs[r], "/hybrid")
        /\ reqs[r].received_access_token_login_result_pair # <<>>
        /\ ~AccessOk(reqs[r])
        /\ InnerResponse(reqs[r]).status = OK
        /\ InnerResponse(reqs[r]).body = "unauthenticated"

\* C6: once the client has logged in and before any cookie lifetime has
\* passed, its request to the private page, sent with the cookies the
\* responses gave it, succeeds with the identity of the login.
C6_LoginThenPrivateSucceeds ==
    \A r \in Slots :
        (/\ reqs[r].from_client
         /\ Answered(reqs[r], "/private")
         /\ IsSome(client.logged_in)
         /\ now = 1)
            => /\ InnerResponse(reqs[r]).status = OK
               /\ reqs[r].extensions.AccessTokenVerificationResultExtension
                    = <<[ok |-> TRUE, val |-> Unwrap(client.logged_in), err |-> OK]>>

HasCookie(set_cookie, name, value, expires, path) ==
    \E i \in 1..Len(set_cookie) :
        /\ set_cookie[i].name = name
        /\ set_cookie[i].value = value
        /\ set_cookie[i].expires = expires
        /\ set_cookie[i].path = path

\* C7: the final response of an exchange whose handler attached a Login
\* marker sets a cookie of the marker's kind with its token, expiry and path.
C7_LoginMarkerSetsCookie ==
    \A r \in Slots :
        ReturnedOk(reqs[r]) =>
            /\ IsSome(InnerResponse(reqs[r]).AccessTokenResponse) =>
                LET m == Unwrap(InnerResponse(reqs[r]).AccessTokenResponse)
                IN HasCookie(FinalResponse(reqs[r]).set_cookie,
                             ACCESS_TOKEN_COOKIE_NAME, m.token, m.expires_at, m.path)
            /\ IsSome(InnerResponse(reqs[r]).RefreshTokenResponse) =>
                LET m == Unwrap(InnerResponse(reqs[r]).RefreshTokenResponse)
                IN HasCookie(FinalResponse(reqs[r]).set_cookie,
                             REFRESH_TOKEN_COOKIE_NAME, m.token, m.expires_at, m.path)

\* C8: in a finished logout exchange revoke_access_token was called once,
\* with the verified token and its identity, iff the access token verified,
\* and revoke_refresh_token once, with the verified token, iff the refresh
\* token verified.
C8_RevokeExactlyVerified ==
    \A r \in Slots :
        (ReturnedOk(reqs[r]) /\ CarriesLogout(reqs[r])) =>
            /\ SelectOp(reqs[r].calls, "revoke_access_token") =
                IF AccessOk(reqs[r])
                THEN <<[op |-> "revoke_access_token",
                        token |-> reqs[r].received_access_token_login_result_pair[1].token,
                        login_info |->
                            reqs[r].received_access_token_login_result_pair[1].result.val,
                        result |-> Ok("")]>>
                ELSE <<>>
            /\ SelectOp(reqs[r].calls, "revoke_refresh_token") =
                IF RefreshOk(reqs[r])
                THEN <<[op |-> "revoke_refresh_token",
                        token |-> reqs[r].received_refresh_token[1].token,
                        login_info |-> "",
                        result |-> Ok("")]>>
                ELSE <<>>

\* C8 witness: a finished logout exchange in which both tokens verified and
\* both were revoked
C8_Witness ==
    \E r \in Slots :
        /\ ReturnedOk(reqs[r])
        /\ CarriesLogout(reqs[r])
        /\ AccessOk(reqs[r])
        /\ RefreshOk(reqs[r])
        /\ CountOp(reqs[r].calls, "revoke_access_token") = 1
        /\ CountOp(reqs[r].calls, "revoke_refresh_token") = 1

\* C9: the final response of a logout exchange sets an expired access_token
\* cookie at the marker's access-token path and an expired refresh_token
\* cookie at the marker's refresh-token path, "/" by default.
C9_LogoutExpiresBothCookies ==
    \A r \in Slots :
        (ReturnedOk(reqs[r]) /\ CarriesLogout(reqs[r])) =>
            LET m == Unwrap(InnerResponse(reqs[r]).AuthLogoutExtension)
            IN /\ HasCookie(FinalResponse(reqs[r]).set_cookie,
                            ACCESS_TOKEN_COOKIE_NAME, "", UNIX_EPOCH,
                            IF m.access_token_path = <<>> THEN "/"
                            ELSE m.access_token_path[1])
               /\ HasCookie(FinalResponse(reqs[r]).set_cookie,
                            REFRESH_TOKEN_COOKIE_NAME, "", UNIX_EPOCH,
                            IF m.refresh_token_path = <<>> THEN "/"
                            ELSE m.refresh_token_path[1])

\* a logout exchange in which no token verified
LogoutNoSession(rq) ==
    /\ rq.pc = "done"
    /\ CarriesLogout(rq)
    /\ ~AccessOk(rq)
    /\ ~RefreshOk(rq)

PresentedAccessTokens(rq) ==
    {rq.examined[i].value :
        i \in {k \in 1..Len(rq.examined) : rq.examined[k].name = ACCESS_TOKEN_COOKIE_NAME}}

\* the wrapped service has answered and the middleware has not yet acted on it
JustAnswered(rq, path) == rq.pc = "inspect" /\ Answered(rq, path)

C12_UpdateExactlyWhenVerifiedNoLogout ==
    \A r \in Slots :
        CountOp(reqs[r].calls, "update_access_token") =
            IF /\ ReturnedOk(reqs[r])
               /\ AccessOk(reqs[r])
               /\ ~CarriesLogout(reqs[r])
            THEN 1 ELSE 0

\* C12 witness: a finished exchange with a verified access token, no Logout
\* marker and one update_access_token call
C12_Witness ==
    \E r \in Slots :
        /\ ReturnedOk(reqs[r])
        /\ AccessOk(reqs[r])
        /\ ~CarriesLogout(reqs[r])
        /\ CountOp(reqs[r].calls, "update_access_token") = 1

\* the cookies the middleware added to the response of the wrapped service
AddedCookies(rq) ==
    SubSeq(FinalResponse(rq).set_cookie,
           Len(InnerResponse(rq).set_cookie) + 1,
           Len(FinalResponse(rq).set_cookie))

\* what update_access_token returned in this exchange
Updated(rq) == SelectOp(rq.calls, "update_access_token")[1].result.val

\* C13: the step in which update_access_token returns adds exactly one
\* cookie, named access_token, with the returned value, expiring the returned
\* TTL after the present time and at path "/", when a renewal is returned;
\* it adds no cookie when no renewal is returned.
C13_RenewalCookieFollowsUpdate ==
    [][\A r \in Slots :
        (/\ reqs[r].pc = "inspect"
         /\ reqs'[r].pc = "done"
         /\ CountOp(reqs'[r].calls, "update_access_token") = 1)
        => IF IsSome(Updated(reqs'[r]))
           THEN /\ Len(AddedCookies(reqs'[r])) = 1
                /\ AddedCookies(reqs'[r])[1].name = ACCESS_TOKEN_COOKIE_NAME
                /\ AddedCookies(reqs'[r])[1].value = Unwrap(Updated(reqs'[r])).token
                /\ AddedCookies(reqs'[r])[1].expires = now + Unwrap(Updated(reqs'[r])).ttl
                /\ AddedCookies(reqs'[r])[1].path = "/"
           ELSE AddedCookies(reqs'[r]) = <<>>]_vars

\* C13 witness: update_access_token returned no renewal and the final
\* response sets no cookie
C13_Witness ==
    \E r \in Slots :
        /\ ReturnedOk(reqs[r])
        /\ CountOp(reqs[r].calls, "update_access_token") = 1
        /\ ~IsSome(Updated(reqs[r]))
        /\ FinalResponse(reqs[r]).set_cookie = <<>>

\* C14: a finished exchange whose access token did not verify made no
\* update_access_token call and was given no access_token cookie other than
\* the expired ones of a logout, a valid refresh token notwithstanding; a
\* handler that requires the identity was rejected, and the rejected exchange
\* left the handler's sessions and the client's cookies as they were, so the
\* next protected request fails alike.
C14_NoRenewalWithoutVerifiedAccessToken ==
    /\ [](\A r \in Slots :
            (ReturnedOk(reqs[r]) /\ ~AccessOk(reqs[r])) =>
                /\ CountOp(reqs[r].calls, "update_access_token") = 0
                /\ \A i \in 1..Len(AddedCookies(reqs[r])) :
                        AddedCookies(reqs[r])[i].name = ACCESS_TOKEN_COOKIE_NAME
                            => /\ AddedCookies(reqs[r])[i].value = ""
                               /\ AddedCookies(reqs[r])[i].expires = UNIX_EPOCH
                /\ reqs[r].request.path = "/private"
                        => InnerResponse(reqs[r]).status # OK)
    /\ [][\A r \in Slots :
            (/\ reqs[r].request.path = "/private"
             /\ reqs[r].pc # "done"
             /\ reqs'[r].pc = "done"
             /\ ~AccessOk(reqs'[r]))
            => state' = state /\ client' = client]_vars

\* C14 witness: a protected request with a rejected access token and a valid
\* refresh token has been answered with a rejection
C14_Witness ==
    \E r \in Slots :
        /\ ReturnedOk(reqs[r])
        /\ reqs[r].request.path = "/private"
        /\ reqs[r].received_access_token_login_result_pair # <<>>
        /\ ~AccessOk(reqs[r])
        /\ RefreshOk(reqs[r])
        /\ FinalResponse(reqs[r]).status = BAD_REQUEST
        /\ FinalResponse(reqs[r]).set_cookie = <<>>

\* C15: the final response of a refresh-login exchange whose refresh token
\* verified and whose handler issued a new access token sets an access_token
\* cookie with the new token, which verifies.
C15_RefreshSetsFreshAccessCookie ==
    \A r \in Slots :
        (/\ ReturnedOk(reqs[r])
         /\ reqs[r].request.path = "/api/refresh-login"
         /\ RefreshOk(reqs[r])
         /\ InnerResponse(reqs[r]).status = OK)
        => \E i \in 1..Len(FinalResponse(reqs[r]).set_cookie) :
            /\ FinalResponse(reqs[r]).set_cookie[i].name = ACCESS_TOKEN_COOKIE_NAME
            /\ FinalResponse(reqs[r]).set_cookie[i].value
                    \in DOMAIN state.logins_by_access_token

\* the wrapped service failed
ServiceFailed(rq) == IsSome(rq.next_response) /\ ~Unwrap(rq.next_response).ok

\* C16: when the wrapped service fails, the call returns what the service
\* returned, with no cookie, and the only AuthHandler calls of the exchange
\* are the verify calls made before the service ran.
C16_ErrorPropagatedUntouched ==
    \A r \in Slots :
        ServiceFailed(reqs[r]) =>
            /\ reqs[r].pc = "done" => reqs[r].result = reqs[r].next_response
            /\ CountOp(reqs[r].calls, "update_access_token") = 0
            /\ CountOp(reqs[r].calls, "revoke_access_token") = 0
            /\ CountOp(reqs[r].calls, "revoke_refresh_token") = 0
            /\ reqs[r].response.set_cookie = <<>>

\* C16 witness: the wrapped service failed in an exchange whose access and
\* refresh tokens had verified, and the call has returned
C16_Witness ==
    \E r \in Slots :
        /\ reqs[r].pc = "done"
        /\ ServiceFailed(reqs[r])
        /\ AccessOk(reqs[r])
        /\ RefreshOk(reqs[r])
        /\ ~Unwrap(reqs[r].result).ok

\* C17: the final response keeps the status, the body and every Set-Cookie
\* header of the wrapped service's response, in their order; the cookies of
\* the middleware come after them.
C17_HandlerHeadersKept ==
    \A r \in Slots :
        ReturnedOk(reqs[r]) =>
            /\ FinalResponse(reqs[r]).status = InnerResponse(reqs[r]).status
            /\ FinalResponse(reqs[r]).body = InnerResponse(reqs[r]).body
            /\ Len(FinalResponse(reqs[r]).set_cookie)
                    >= Len(InnerResponse(reqs[r]).set_cookie)
            /\ SubSeq(FinalResponse(reqs[r]).set_cookie, 1,
                      Len(InnerResponse(reqs[r]).set_cookie))
                    = InnerResponse(reqs[r]).set_cookie

\* C17 witness: the handler set a cookie of its own, the middleware added a
\* renewal cookie, and the final response carries both
C17_Witness ==
    \E r \in Slots :
        /\ ReturnedOk(reqs[r])
        /\ ~CarriesLogout(reqs[r])
        /\ InnerResponse(reqs[r]).set_cookie = <<handler_cookie>>
        /\ Len(FinalResponse(reqs[r]).set_cookie) = 2
        /\ FinalResponse(reqs[r]).set_cookie[2].name = ACCESS_TOKEN_COOKIE_NAME

\* the attributes create_access_token_cookie / create_refresh_token_cookie set
HasLayerAttributes(cookie) ==
    /\ cookie.http_only
    /\ cookie.secure
    /\ cookie.same_site = "Strict"

\* C18: every cookie the middleware adds is HttpOnly, Secure and
\* SameSite=Strict; a renewal adds one access_token cookie that expires after
\* the epoch, a logout adds an access_token cookie and a refresh_token cookie
\* that expire at the epoch.
C18_EmittedCookiesWellFormed ==
    \A r \in Slots :
        ReturnedOk(reqs[r]) =>
            LET added == AddedCookies(reqs[r])
            IN /\ \A i \in 1..Len(added) : HasLayerAttributes(added[i])
               /\ CarriesLogout(reqs[r]) =>
                    /\ Len(added) = 2
                    /\ added[1].name = ACCESS_TOKEN_COOKIE_NAME
                    /\ added[2].name = REFRESH_TOKEN_COOKIE_NAME
                    /\ added[1].expires = UNIX_EPOCH
                    /\ added[2].expires = UNIX_EPOCH
               /\ ~CarriesLogout(reqs[r]) =>
                    \A i \in 1..Len(added) :
                        /\ added[i].name = ACCESS_TOKEN_COOKIE_NAME
                        /\ added[i].expires > UNIX_EPOCH

\* C19: the final response carries none of the markers a handler can attach.
C19_NoMarkerInFinalResponse ==
    \A r \in Slots :
        ReturnedOk(reqs[r]) =>
            /\ ~IsSome(FinalResponse(reqs[r]).AuthLogoutExtension)
            /\ ~IsSome(FinalResponse(reqs[r]).AccessTokenResponse)
            /\ ~IsSome(FinalResponse(reqs[r]).RefreshTokenResponse)

VerifyOps == {"verify_access_token", "verify_refresh_token"}

\* C20: the stages of one call are sequential.  The wrapped service is called
\* only when the cookie loop has ended, in a step of its own; every verify
\* call is made before the service is called; every revoke or update call is
\* made after the service has returned and before the call returns; the call
\* returns only after the service has returned.
C20_StagesSequential ==
    /\ [](\A r \in Slots :
            /\ IsSome(reqs[r].next_response) => reqs[r].cookie_jar = <<>>
            /\ IsSome(reqs[r].result)
                    => IsSome(reqs[r].next_response) /\ reqs[r].pc = "done"
            /\ ~IsSome(reqs[r].next_response)
                    => \A i \in 1..Len(reqs[r].calls) : reqs[r].calls[i].op \in VerifyOps
            /\ \A i, j \in 1..Len(reqs[r].calls) :
                    (i < j /\ reqs[r].calls[j].op \in VerifyOps)
                        => reqs[r].calls[i].op \in VerifyOps)
    /\ [][\A r \in Slots :
            /\ Len(reqs'[r].calls) > Len(reqs[r].calls) =>
                /\ Len(reqs'[r].calls) = Len(reqs[r].calls) + 1
                /\ IF reqs'[r].calls[Len(reqs'[r].calls)].op \in VerifyOps
                   THEN /\ ~IsSome(reqs[r].next_response)
                        /\ ~IsSome(reqs'[r].next_response)
                   ELSE /\ IsSome(reqs[r].next_response)
                        /\ ~IsSome(reqs[r].result)
            /\ (~IsSome(reqs[r].next_response) /\ IsSome(reqs'[r].next_response))
                => /\ reqs'[r].calls = reqs[r].calls
                   /\ ~IsSome(reqs'[r].result)]_vars

\* C20 witness: a finished logout exchange with both verify calls followed
\* by both revoke calls
C20_Witness ==
    \E r \in Slots :
        /\ reqs[r].pc = "done"
        /\ Len(reqs[r].calls) = 4
        /\ reqs[r].calls[1].op \in VerifyOps
        /\ reqs[r].calls[2].op \in VerifyOps
        /\ reqs[r].calls[3].op = "revoke_access_token"
        /\ reqs[r].calls[4].op = "revoke_refresh_token"

\* the last element of a non-empty sequence
Last(q) == q[Len(q)]

\* what a request holds was computed from its own cookies and its own calls
OwnResults(rq) ==
    /\ \A i \in 1..Len(rq.calls) :
        /\ rq.calls[i].op = "verify_access_token"
            => rq.calls[i].token \in PresentedAccessTokens(rq)
        /\ rq.calls[i].op = "verify_refresh_token"
            => \E k \in 1..Len(rq.examined) :
                /\ rq.examined[k].name = REFRESH_TOKEN_COOKIE_NAME
                /\ rq.examined[k].value = rq.calls[i].token
        /\ rq.calls[i].op \in {"revoke_access_token", "update_access_token"}
            => /\ AccessOk(rq)
               /\ rq.calls[i].token = rq.received_access_token_login_result_pair[1].token
               /\ rq.calls[i].login_info
                    = rq.received_access_token_login_result_pair[1].result.val
        /\ rq.calls[i].op = "revoke_refresh_token"
            => /\ RefreshOk(rq)
               /\ rq.calls[i].token = rq.received_refresh_token[1].token
    /\ IF CountOp(rq.calls, "verify_access_token") = 0
       THEN rq.received_access_token_login_result_pair = <<>>
       ELSE LET c == Last(SelectOp(rq.calls, "verify_access_token"))
            IN rq.received_access_token_login_result_pair
                    = <<[token |-> c.token, result |-> c.result]>>
    /\ IF CountOp(rq.calls, "verify_refresh_token") = 0
       THEN rq.received_refresh_token = <<>>
       ELSE LET c == Last(SelectOp(rq.calls, "verify_refresh_token"))
            IN rq.received_refresh_token = <<[token |-> c.token, result |-> c.result]>>
    /\ IsSome(rq.next_response) =>
        /\ rq.extensions.AccessTokenVerificationResultExtension
            = (IF rq.received_access_token_login_result_pair = <<>> THEN <<>>
               ELSE <<rq.received_access_token_login_result_pair[1].result>>)
        /\ rq.extensions.RefreshTokenVerificationResultExtension
            = rq.received_refresh_token
    /\ (ReturnedOk(rq) /\ ~CarriesLogout(rq)) =>
        \A i \in 1..Len(AddedCookies(rq)) :
            /\ AccessOk(rq)
            /\ AddedCookies(rq)[i].value
                = rq.received_access_token_login_result_pair[1].token

\* C21: with requests in flight concurrently, what each request holds (its
\* verification results, the extensions its handler reads, the tokens and
\* identity of its revoke and update calls, its renewal cookie) comes from
\* its own cookies and the answers to its own calls, and a step of one
\* request changes the locals of no other request.
C21_RequestsIsolated ==
    /\ [](\A r \in Slots : OwnResults(reqs[r]))
    /\ [][\A r, o \in Slots :
            (r # o /\ reqs'[r] # reqs[r]) => reqs'[o] = reqs[o]]_vars

\* C21 witness: two requests are in flight together, one with a verified
\* identity and one that presented no token, and each handler was given its own
C21_Witness ==
    \E r, o \in Slots :
        /\ r # o
        /\ JustAnswered(reqs[r], "/private")
        /\ JustAnswered(reqs[o], "/private")
        /\ AccessOk(reqs[r])
        /\ reqs[o].examined = <<>>
        /\ InnerResponse(reqs[r]).status = OK
        /\ InnerResponse(reqs[o]).status = UNAUTHORIZED

\* the request was dispatched with a verified identity, its response carries
\* no Logout marker, and a logout exchange for its access token has completed
RacedPastLogout(rq) ==
    /\ rq.pc = "inspect"
    /\ Unwrap(rq.next_response).ok
    /\ ~CarriesLogout(rq)
    /\ AccessOk(rq)
    /\ rq.received_access_token_login_result_pair[1].token \in logged_out

\* C22: a request that verified its access token before a concurrent logout
\* revoked it is not held back: after the revocation has completed it can
\* still call update_access_token for that token, and the step that ends
\* its exchange does call it, with the revoked token, and emits the cookie
\* of the renewal the handler returns.
C22_RenewalRacesPastLogout ==
    /\ [](\A r \in Slots :
            RacedPastLogout(reqs[r]) => ENABLED UpdateAccessToken(r))
    /\ [][\A r \in Slots :
            (RacedPastLogout(reqs[r]) /\ reqs'[r].pc = "done") =>
                /\ CountOp(reqs'[r].calls, "update_access_token") = 1
                /\ Last(reqs'[r].calls).token
                    = reqs[r].received_access_token_login_result_pair[1].token
                /\ IsSome(Updated(reqs'[r])) =>
                    /\ Len(AddedCookies(reqs'[r])) = 1
                    /\ AddedCookies(reqs'[r])[1].value
                        = reqs[r].received_access_token_login_result_pair[1].token]_vars

\* C22 witness: the private page was served with the identity of a token
\* whose logout has completed and whose session the handler no longer holds,
\* and the renewal of that token is still to come
C22_Witness ==
    \E r \in Slots :
        /\ RacedPastLogout(reqs[r])
        /\ reqs[r].request.path = "/private"
        /\ InnerResponse(reqs[r]).body = "private"
        /\ reqs[r].received_access_token_login_result_pair[1].token
                \notin DOMAIN state.logins_by_access_token

\* the successful verify_access_token calls of a request
VerifiedCalls(rq) ==
    SelectSeq(rq.calls, LAMBDA c : c.op = "verify_access_token" /\ c.result.ok)

\* C23: a request has at most one successful verify_access_token call; the
\* identity it returned is the identity of the stored result, of the
\* extension the LoginInfoExtractor reads and yields, and of every
\* update_access_token and revoke_access_token call; once stored, the
\* verified result stays as it is until the call has returned.
C23_OneIdentityPerRequest ==
    /\ [](\A r \in Slots :
            /\ Len(VerifiedCalls(reqs[r])) <= 1
            /\ AccessOk(reqs[r]) <=> Len(VerifiedCalls(reqs[r])) = 1
            /\ AccessOk(reqs[r]) =>
                /\ reqs[r].received_access_token_login_result_pair[1].result
                        = VerifiedCalls(reqs[r])[1].result
                /\ reqs[r].received_access_token_login_result_pair[1].token
                        = VerifiedCalls(reqs[r])[1].token
                /\ IsSome(reqs[r].next_response) =>
                        LoginInfoExtractor(reqs[r].extensions)
                            = Ok(VerifiedCalls(reqs[r])[1].result.val)
            /\ \A i \in 1..Len(reqs[r].calls) :
                    reqs[r].calls[i].op \in {"update_access_token", "revoke_access_token"}
                        => /\ Len(VerifiedCalls(reqs[r])) = 1
                           /\ reqs[r].calls[i].login_info
                                = VerifiedCalls(reqs[r])[1].result.val
                           /\ reqs[r].calls[i].token = VerifiedCalls(reqs[r])[1].token)
    /\ [][\A r \in Slots :
            (AccessOk(reqs[r]) /\ reqs'[r].pc # "idle")
                => reqs'[r].received_access_token_login_result_pair
                        = reqs[r].received_access_token_login_result_pair]_vars

\* C23 witness: a finished logout exchange that presented two token cookies,
\* whose one verified identity was passed to revoke_access_token
C23_Witness ==
    \E r \in Slots :
        /\ ReturnedOk(reqs[r])
        /\ Len(VerifiedCalls(reqs[r])) = 1
        /\ Len(reqs[r].examined) = 2
        /\ CountOp(reqs[r].calls, "revoke_access_token") = 1
        /\ Last(reqs[r].calls).login_info = VerifiedCalls(reqs[r])[1].result.val
        /\ VerifiedCalls(reqs[r])[1].result.val \in LoginNames

\* C24: the RefreshTokenExtractor yields the value of the refresh_token
\* cookie that verified, and nothing else, when one verified in this
\* request; otherwise it rejects, with Unauthorized when no unexpired
\* refresh_token cookie was presented and with the handler's status when the
\* token was rejected, and the handlers that take it (refresh-login, logout)
\* answer with that rejection and attach no marker.
C24_RefreshExtractorRequired ==
    \A r \in Slots :
        (IsSome(reqs[r].next_response) /\ Unwrap(reqs[r].next_response).ok) =>
            LET x == RefreshTokenExtractor(reqs[r].extensions)
                pair == reqs[r].received_refresh_token
                res == InnerResponse(reqs[r])
            IN /\ RefreshOk(reqs[r]) =>
                    /\ x = Ok(pair[1].token)
                    /\ x.val \in RefreshTokens
                    /\ \E k \in 1..Len(reqs[r].examined) :
                        /\ reqs[r].examined[k].name = REFRESH_TOKEN_COOKIE_NAME
                        /\ reqs[r].examined[k].value = x.val
                    /\ reqs[r].request.path = "/api/logout" => CarriesLogout(reqs[r])
               /\ ~RefreshOk(reqs[r]) =>
                    /\ ~x.ok
                    /\ x.err = (IF pair = <<>> THEN UNAUTHORIZED ELSE pair[1].result.err)
                    /\ reqs[r].request.path \in {"/api/logout", "/api/refresh-login"} =>
                        /\ res.status = x.err
                        /\ ~IsSome(res.AuthLogoutExtension)
                        /\ ~IsSome(res.AccessTokenResponse)

\* C24 witness: the refresh endpoint was asked with a refresh token the
\* handler rejected, and answered with the handler's status
C24_Witness ==
    \E r \in Slots :
        /\ Answered(reqs[r], "/api/refresh-login")
        /\ reqs[r].received_refresh_token # <<>>
        /\ ~RefreshOk(reqs[r])
        /\ InnerResponse(reqs[r]).status = BAD_REQUEST

\* the kind of cookie a verify operation is for
CookieNameOf(op) ==
    IF op = "verify_access_token" THEN ACCESS_TOKEN_COOKIE_NAME
    ELSE REFRESH_TOKEN_COOKIE_NAME

\* C25: a token cookie whose expiry date is in the past is passed over: the
\* iteration that meets it makes no call and leaves the stored results as
\* they are.  A token cookie with no expiry date, or one not yet passed, is a
\* candidate: it is verified and stored unless a cookie of its kind has
\* already verified.  A request whose token cookies were all passed over is
\* dispatched as one that presented none.
C25_ExpiredCookieIsAbsent ==
    /\ [](\A r \in Slots :
            /\ \A i \in 1..Len(reqs[r].skipped) :
                /\ IsSome(reqs[r].skipped[i].expires)
                /\ Unwrap(reqs[r].skipped[i].expires) < now
            /\ (reqs[r].examined = <<>> /\ IsSome(reqs[r].next_response)) =>
                /\ reqs[r].calls = <<>>
                /\ reqs[r].extensions = NoExtensions)
    /\ [][\A r \in Slots :
            (/\ reqs[r].pc = "extract"
             /\ reqs'[r].pc = "extract"
             /\ reqs[r].cookie_jar # <<>>
             /\ reqs'[r].cookie_jar = Tail(reqs[r].cookie_jar))
            => LET c == Head(reqs[r].cookie_jar)
                   token_cookie == c.name \in {ACCESS_TOKEN_COOKIE_NAME,
                                               REFRESH_TOKEN_COOKIE_NAME}
                   past == IsSome(c.expires) /\ Unwrap(c.expires) < now
                   held == IF c.name = ACCESS_TOKEN_COOKIE_NAME
                           THEN AccessOk(reqs[r]) ELSE RefreshOk(reqs[r])
               IN /\ (token_cookie /\ past) =>
                        /\ reqs'[r].calls = reqs[r].calls
                        /\ reqs'[r].examined = reqs[r].examined
                        /\ reqs'[r].received_access_token_login_result_pair
                                = reqs[r].received_access_token_login_result_pair
                        /\ reqs'[r].received_refresh_token = reqs[r].received_refresh_token
                  /\ (token_cookie /\ ~past) =>
                        /\ reqs'[r].examined = Append(reqs[r].examined, c)
                        /\ ~held =>
                            /\ Len(reqs'[r].calls) = Len(reqs[r].calls) + 1
                            /\ Last(reqs'[r].calls).token = c.value
                            /\ CookieNameOf(Last(reqs'[r].calls).op) = c.name]_vars

\* C25 witness: the private page was asked for with an expired access_token
\* cookie only; no verify call was made and the answer is that of a request
\* without a token
C25_Witness ==
    \E r \in Slots :
        /\ Answered(reqs[r], "/private")
        /\ Len(reqs[r].skipped) = 1
        /\ reqs[r].skipped[1].name = ACCESS_TOKEN_COOKIE_NAME
        /\ reqs[r].examined = <<>>
        /\ reqs[r].calls = <<>>
        /\ InnerResponse(reqs[r]).status = UNAUTHORIZED

\* C26: once the wrapped service is called, the request's extensions hold
\* one access-token entry exactly when an unexpired access_token cookie was
\* examined, and it is the stored result, success or failure; likewise one
\* refresh-token entry, with the token and its result; so absent, invalid
\* and valid are three different readings.  Nothing is written before.
C26_OneResultEntryPerKind ==
    \A r \in Slots :
        LET ext == reqs[r].extensions
            a == ext.AccessTokenVerificationResultExtension
            f == ext.RefreshTokenVerificationResultExtension
        IN IF ~IsSome(reqs[r].next_response)
           THEN ext = NoExtensions
           ELSE /\ Len(a) <= 1
                /\ Len(f) <= 1
                /\ IsSome(a) <=> ExaminedOf(reqs[r], ACCESS_TOKEN_COOKIE_NAME) # <<>>
                /\ IsSome(f) <=> ExaminedOf(reqs[r], REFRESH_TOKEN_COOKIE_NAME) # <<>>
                /\ IsSome(a) =>
                    /\ a[1] = reqs[r].received_access_token_login_result_pair[1].result
                    /\ a[1].ok <=> AccessOk(reqs[r])
                /\ IsSome(f) =>
                    /\ f[1] = reqs[r].received_refresh_token[1]
                    /\ f[1].result.ok <=> RefreshOk(reqs[r])

\* C26 witness: a request whose access token the handler rejected and which
\* presented no refresh token: an entry with the failure, and no entry
C26_Witness ==
    \E r \in Slots :
        /\ IsSome(reqs[r].next_response)
        /\ IsSome(reqs[r].extensions.AccessTokenVerificationResultExtension)
        /\ ~reqs[r].extensions.AccessTokenVerificationResultExtension[1].ok
        /\ ~IsSome(reqs[r].extensions.RefreshTokenVerificationResultExtension)

\* C27: every request that enters the middleware reaches the wrapped
\* service, whatever its cookies and whatever the verify calls answered; the
\* service is called once per request, when the cookie loop has ended, and
\* its answer is not replaced afterwards.
C27_ServiceCalledOnce ==
    /\ \A r \in SeqSlots :
        (reqs[r].pc = "extract") ~> (reqs[r].pc = "inspect")
    /\ [][\A r \in SeqSlots :
            /\ reqs'[r].next_response # reqs[r].next_response =>
                \/ /\ reqs[r].pc = "extract"
                   /\ reqs[r].cookie_jar = <<>>
                   /\ ~IsSome(reqs[r].next_response)
                   /\ IsSome(reqs'[r].next_response)
                \/ /\ reqs[r].pc = "done"
                   /\ reqs'[r].pc = "idle"
            /\ (reqs[r].pc = "extract" /\ reqs'[r].pc # "extract")
                => reqs'[r].pc = "inspect" /\ IsSome(reqs'[r].next_response)]_vars

\* C27 witness: both tokens of the request were rejected, and the handler of
\* the hybrid page ran
C27_Witness ==
    \E r \in SeqSlots :
        /\ Answered(reqs[r], "/hybrid")
        /\ reqs[r].received_access_token_login_result_pair # <<>>
        /\ reqs[r].received_refresh_token # <<>>
        /\ ~AccessOk(reqs[r])
        /\ ~RefreshOk(reqs[r])
        /\ InnerResponse(reqs[r]).body = "unauthenticated"

\* a jar without its cookies of one name
WithoutName(jar, name) == SelectSeq(jar, LAMBDA c : c.name # name)

\* the request has been received and its cookie loop has not yet acted
Fresh(rq) ==
    /\ rq.pc = "extract"
    /\ rq.examined = <<>>
    /\ rq.skipped = <<>>
    /\ rq.calls = <<>>

\* C28: for every request received, the cookie loop over its jar and the
\* loop over the same jar without the refresh_token cookies give the same
\* access-token result, the same access-token extension and the same
\* renewal and revocation precondition; the loop over the jar without the
\* access_token cookies gives the same refresh-token result and extension.
C28_TokenKindsIndependent ==
    \A r \in Slots :
        Fresh(reqs[r]) =>
            LET jar == reqs[r].cookie_jar
                full == run_loop(reqs[r], jar, state, now)
                no_refresh == run_loop(reqs[r],
                                  WithoutName(jar, REFRESH_TOKEN_COOKIE_NAME), state, now)
                no_access == run_loop(reqs[r],
                                  WithoutName(jar, ACCESS_TOKEN_COOKIE_NAME), state, now)
            IN /\ full.received_access_token_login_result_pair
                    = no_refresh.received_access_token_login_result_pair
               /\ insert_extensions(full).AccessTokenVerificationResultExtension
                    = insert_extensions(no_refresh).AccessTokenVerificationResultExtension
               /\ verified(full.received_access_token_login_result_pair)
                    = verified(no_refresh.received_access_token_login_result_pair)
               /\ no_refresh.received_refresh_token = <<>>
               /\ full.received_refresh_token = no_access.received_refresh_token
               /\ insert_extensions(full).RefreshTokenVerificationResultExtension
                    = insert_extensions(no_access).RefreshTokenVerificationResultExtension
               /\ no_access.received_access_token_login_result_pair = <<>>

\* C28 witness: a request whose jar held a refresh token that verified and
\* an access token that did not, after its cookie loop
C28_Witness ==
    \E r \in Slots :
        /\ reqs[r].pc = "extract"
        /\ reqs[r].cookie_jar = <<>>
        /\ reqs[r].received_access_token_login_result_pair # <<>>
        /\ ~AccessOk(reqs[r])
        /\ RefreshOk(reqs[r])

\* the wrapped service answered with a Logout marker and a token verified:
\* a revoke call is due
RevokeDue(rq) ==
    /\ rq.pc = "inspect"
    /\ CarriesLogout(rq)
    /\ AccessOk(rq) \/ RefreshOk(rq)

C30_RoleGateForbidden ==
    \A r \in Slots :
        Answered(reqs[r], "/admin-page") =>
            LET res == InnerResponse(reqs[r])
                pair == reqs[r].received_access_token_login_result_pair
            IN /\ AccessOk(reqs[r]) =>
                    IF role(pair[1].result.val) = "admin"
                    THEN res.status = OK /\ res.body = "admin-page"
                    ELSE res.status = FORBIDDEN /\ res.body = ""
               /\ ~AccessOk(reqs[r]) =>
                    /\ res.status \notin {OK, FORBIDDEN}
                    /\ res.body = ""
               /\ ReturnedOk(reqs[r]) => FinalResponse(reqs[r]).status = res.status

\* C30 witness: a user whose role is not admin, with a verified access
\* token, was answered Forbidden by the role-gated page
C30_Witness ==
    \E r \in Slots :
        /\ ReturnedOk(reqs[r])
        /\ reqs[r].request.path = "/admin-page"
        /\ AccessOk(reqs[r])
        /\ reqs[r].received_access_token_login_result_pair[1].result.val = "user"
        /\ FinalResponse(reqs[r]).status = FORBIDDEN

(* ======================== properties of the AxumApp ==================== *)
\* a step in which a run_server call returns
RunServerReturns == app.pc = "binding" /\ app'.pc = "idle"

OwnListenerHolds(a) ==
    \E t \in TaskIds : /\ a.tasks[t].status \in {"serving", "shutdown"}
                       /\ a.tasks[t].address = a.listener_address

Serving(a) == {t \in TaskIds : a.tasks[t].status = "serving"}

\* C31: run_server on an address that cannot be bound returns
\* RunServerError::TcpBind; a run_server call that returns this error has
\* spawned no task and pushed no join handle, and every server task is in
\* the state it was in, the listeners started earlier still serving.
C31_BindFailureIsLocal ==
    [][RunServerReturns =>
        /\ app'.result # None
        /\ OwnListenerHolds(app) =>
                app'.result = Some(Err(RunServerError_TcpBind))
        /\ ~Unwrap(app'.result).ok =>
                /\ app'.result = Some(Err(RunServerError_TcpBind))
                /\ app'.tasks = app.tasks
                /\ app'.joinhandles = app.joinhandles
                /\ Serving(app') = Serving(app)
                /\ app'.should_run_receiver = None]_vars

\* C31 witness: run_server has returned TcpBind for an address a listener of
\* an earlier call holds, and that listener is serving with its join handle
C31_Witness ==
    /\ app.pc = "idle"
    /\ app.result = Some(Err(RunServerError_TcpBind))
    /\ \E t \in Serving(app) : /\ app.tasks[t].address = app.listener_address
                               /\ app.joinhandles = <<t>>

\* the join handles a join call has yet to await
Pending(a) == {a.joinhandles[i] : i \in 1..Len(a.joinhandles)}

\* C37: after a stop_server call every server task that was spawned before
\* the call shuts down and ends, and a join whose join handles are all of
\* such tasks returns, with the join handles drained.
C37_StopEndsEarlierServers ==
    /\ \A t \in TaskIds :
            (t \in app.stopped) ~> (app.tasks[t].status = "finished")
    /\ (app.pc = "joining" /\ Pending(app) \subseteq app.stopped)
            ~> (app.pc = "idle" /\ app.joinhandles = <<>>)

\* C37 witness: two servers were started, stop_server was called, both tasks
\* have ended and the join that followed has drained both join handles
C37_Witness ==
    /\ app.pc = "joining"
    /\ app.stops = 1
    /\ app.joinhandles = <<>>
    /\ app.stopped = {1, 2}
    /\ \A t \in app.stopped : app.tasks[t].status = "finished"

\* C38: once stop_server has been called, a join returns, whatever the order
\* of the run_server and stop_server calls before it.
C38_StopNeverLost ==
    (app.stops > 0 /\ app.pc = "joining") ~> (app.pc = "idle")

(* ================= properties of the header mutator ==================== *)
HdrAnswered == hdr.pc = "done" /\ Unwrap(hdr.next_response).ok

HdrFinalResponse == Result_into_response(Unwrap(hdr.result))

\* C32: when the wrapped service has answered, the callback has been called
\* once, with the headers the request arrived with and the headers of the
\* service's response; when the callback returned Ok the final response is
\* the service's response with the headers the callback left, so that after
\* the copying callback every request header is on the final response.
C32_CallbackCalledOnce ==
    HdrAnswered =>
        LET inner == Unwrap(hdr.next_response).response
            final == HdrFinalResponse
        IN /\ Len(hdr.callback_calls) = 1
           /\ hdr.callback_calls[1].request_headers = hdr.headers
           /\ hdr.callback_calls[1].response_headers = inner.headers
           /\ hdr.callback \in {"copy", "insert"} =>
                /\ Unwrap(hdr.result).service_ok
                /\ Unwrap(hdr.result).callback_ok
                /\ final.status = inner.status
                /\ final.body = inner.body
           /\ hdr.callback = "copy" =>
                /\ \A name \in DOMAIN hdr.headers :
                        /\ name \in DOMAIN final.headers
                        /\ final.headers[name] = hdr.headers[name]
                /\ DOMAIN final.headers = DOMAIN hdr.headers
           /\ hdr.callback = "insert" =>
                /\ DOMAIN final.headers = DOMAIN inner.headers \cup {"x-added"}
                /\ final.headers["x-added"] = "yes"
                /\ \A name \in DOMAIN inner.headers :
                        final.headers[name] = inner.headers[name]

\* C32 witness: a request with two headers was answered by a service that
\* sets a header of its own, and the copying callback has put the two
\* request headers on the final response
C32_Witness ==
    /\ HdrAnswered
    /\ hdr.callback = "copy"
    /\ DOMAIN hdr.headers = HeaderNames
    /\ DOMAIN Unwrap(hdr.next_response).response.headers = {"content-type"}
    /\ HdrFinalResponse.headers = hdr.headers

\* C39: an error of the callback is the inner Err of an Ok service result,
\* and the final response is made from the error, without the service's
\* response and without the headers the callback had set; an error of the
\* wrapped service is the outer Err, and the callback has not been called.
C39_CallbackErrorReplacesResponse ==
    hdr.pc = "done" =>
        LET inner == Unwrap(hdr.next_response)
            result == Unwrap(hdr.result)
        IN /\ (inner.ok /\ hdr.callback \in {"reject", "insert_then_reject"}) =>
                /\ result = OkErr(BAD_REQUEST)
                /\ HdrFinalResponse.status = BAD_REQUEST
                /\ HdrFinalResponse.body = ""
                /\ HdrFinalResponse.headers = EmptyHeaders
           /\ ~inner.ok =>
                /\ result = ErrService(inner.err)
                /\ hdr.callback_calls = <<>>

\* C39 witness: the callback added a header to the response of the service
\* and then failed, and the result carries only the error
C39_Witness ==
    /\ HdrAnswered
    /\ hdr.callback = "insert_then_reject"
    /\ Len(hdr.callback_calls) = 1
    /\ Unwrap(hdr.result) = OkErr(BAD_REQUEST)

(* ================ properties of the middleware variants ================ *)
AllSelected == IsSome(sel.lib) /\ IsSome(sel.auth) /\ IsSome(sel.auth_layer)

\* the places of the cookies whose token the assignment verifies
Verifying == {i \in 1..Len(sel.cookies) : sel.outcomes[sel.cookies[i]].ok}

\* the selection of the cookie at place i
SelectionAt(i) ==
    Selected(sel.cookies[i], sel.outcomes[sel.cookies[i]].val)

VerifiesInOrder(examined, verifies) ==
    /\ Len(verifies) <= Len(examined)
    /\ \A i \in 1..Len(verifies) :
        /\ verifies[i].token = examined[i].value
        /\ verifies[i].result.ok => i = Len(verifies)
    /\ Len(verifies) < Len(examined) =>
        /\ verifies # <<>>
        /\ verifies[Len(verifies)].result.ok

\* C33: within a request the verify calls of a token kind are made for the
\* unexpired cookies of that kind, one call per cookie in the order the jar
\* yields them, up to and including the first cookie that verifies; the
\* cookies after it are not verified.
C33_VerifyInJarOrder ==
    \A r \in Slots :
        /\ VerifiesInOrder(ExaminedOf(reqs[r], ACCESS_TOKEN_COOKIE_NAME),
                           SelectOp(reqs[r].calls, "verify_access_token"))
        /\ VerifiesInOrder(ExaminedOf(reqs[r], REFRESH_TOKEN_COOKIE_NAME),
                           SelectOp(reqs[r].calls, "verify_refresh_token"))

\* C33 witness: the loop has seen two unexpired access_token cookies with
\* different values; the first verified and the second was not verified
C33_Witness ==
    \E r \in Slots :
        LET examined == ExaminedOf(reqs[r], ACCESS_TOKEN_COOKIE_NAME)
            verifies == SelectOp(reqs[r].calls, "verify_access_token")
        IN /\ Len(examined) = 2
           /\ examined[1].value # examined[2].value
           /\ Len(verifies) = 1
           /\ verifies[1].token = examined[1].value
           /\ verifies[1].result.ok

\* C34: whatever the status of the response of the wrapped service, when the
\* access token verified and the response carries no Logout marker,
\* update_access_token has been called once, for the verified token and its
\* identity, and the renewal it returned is the one cookie added to the
\* response; the status of the response is left as it was.
C34_RenewalWhateverStatus ==
    \A r \in Slots :
        (ReturnedOk(reqs[r]) /\ AccessOk(reqs[r]) /\ ~CarriesLogout(reqs[r])) =>
            LET updates == SelectOp(reqs[r].calls, "update_access_token")
                pair == reqs[r].received_access_token_login_result_pair[1]
            IN /\ Len(updates) = 1
               /\ updates[1].token = pair.token
               /\ updates[1].login_info = pair.result.val
               /\ FinalResponse(reqs[r]).status = InnerResponse(reqs[r]).status
               /\ IsSome(Updated(reqs[r])) =>
                    /\ Len(AddedCookies(reqs[r])) = 1
                    /\ AddedCookies(reqs[r])[1].name = ACCESS_TOKEN_COOKIE_NAME
                    /\ AddedCookies(reqs[r])[1].value = Unwrap(Updated(reqs[r])).token

\* C34 witness: the role-gated page answered Forbidden to a user with a
\* verified access token, and the response carries the renewed cookie
C34_Witness ==
    \E r \in Slots :
        /\ ReturnedOk(reqs[r])
        /\ AccessOk(reqs[r])
        /\ FinalResponse(reqs[r]).status = FORBIDDEN
        /\ CountOp(reqs[r].calls, "update_access_token") = 1
        /\ IsSome(Updated(reqs[r]))
        /\ Len(AddedCookies(reqs[r])) = 1

\* the response of the wrapped service carries no marker
NoMarker(response) ==
    /\ response.AuthLogoutExtension = None
    /\ response.AccessTokenResponse = None
    /\ response.RefreshTokenResponse = None

\* C35: a request whose jar yielded no unexpired access_token or
\* refresh_token cookie is passed on without a request extension and
\* without a verify call; when the response carries no marker the call has
\* made no AuthHandler call at all and returns the response of the wrapped
\* service as it is.
C35_UntouchedWithoutTokens ==
    \A r \in Slots :
        (reqs[r].pc \in {"inspect", "done"} /\ reqs[r].examined = <<>>) =>
            /\ reqs[r].extensions = NoExtensions
            /\ \A i \in 1..Len(reqs[r].calls) : reqs[r].calls[i].op \notin VerifyOps
            /\ (ReturnedOk(reqs[r]) /\ NoMarker(InnerResponse(reqs[r]))) =>
                    /\ reqs[r].calls = <<>>
                    /\ FinalResponse(reqs[r]) = InnerResponse(reqs[r])

\* C35 witness: a request for the private page whose only token cookie had
\* expired was answered by the extractor's rejection, returned as it was
C35_Witness ==
    \E r \in Slots :
        /\ ReturnedOk(reqs[r])
        /\ reqs[r].request.path = "/private"
        /\ reqs[r].examined = <<>>
        /\ reqs[r].skipped # <<>>
        /\ reqs[r].calls = <<>>
        /\ FinalResponse(reqs[r]) = InnerResponse(reqs[r])
        /\ FinalResponse(reqs[r]).status = UNAUTHORIZED

\* C36: the cookie of a renewal is issued at path "/", one cookie per
\* renewal, whatever cookie path the Login marker that issued the token
\* carried.
C36_RenewedCookieAtRoot ==
    \A r \in Slots :
        (/\ ReturnedOk(reqs[r])
         /\ CountOp(reqs[r].calls, "update_access_token") = 1
         /\ IsSome(Updated(reqs[r]))) =>
            /\ Len(AddedCookies(reqs[r])) = 1
            /\ \A i \in 1..Len(AddedCookies(reqs[r])) :
                    AddedCookies(reqs[r])[i].path = "/"

\* C36 witness: a login has issued an access token with a marker whose
\* cookie path is not "/", and a request that presented this token has its
\* renewed cookie, for the same token, at path "/"
C36_Witness ==
    \E r \in Slots, o \in Slots :
        /\ ReturnedOk(reqs[o])
        /\ reqs[o].request.path = "/login"
        /\ IsSome(FinalResponse(reqs[o]).AccessTokenResponse)
        /\ Unwrap(FinalResponse(reqs[o]).AccessTokenResponse).path = "/x"
        /\ ReturnedOk(reqs[r])
        /\ AccessOk(reqs[r])
        /\ reqs[r].received_access_token_login_result_pair[1].token =
                Unwrap(FinalResponse(reqs[o]).AccessTokenResponse).token
        /\ IsSome(Updated(reqs[r]))
        /\ AddedCookies(reqs[r]) # <<>>
        /\ AddedCookies(reqs[r])[1].value =
                Unwrap(FinalResponse(reqs[o]).AccessTokenResponse).token
        /\ AddedCookies(reqs[r])[1].path = "/"

====
